---------------------------- MODULE Spec2Model ----------------------------
(***************************************************************************)
(* Model of the Universal Serial Hub device adapter (ush.cpp): the hub,    *)
(* the discovery that fills its registry of device descriptions, the       *)
(* background BusyThread that polls the serial port, and the foreground    *)
(* device calls.                                                           *)
(*                                                                         *)
(* Strings of the program are sequences of one-character strings, so that  *)
(* splitting, joining and number parsing are computed, not assumed.        *)
(* Times are in microseconds, the unit of MM::MMTime(double).              *)
(***************************************************************************)
EXTENDS Integers, Sequences, FiniteSets, TLC

(***************************************************************************)
(* Reserved words and separators (ushreserved.h).                          *)
(***************************************************************************)
sepSetup == ","
sepWithin == ";"
sepOut == ":"
sepIn == "|"
sepEnd == "\n"

w_timeout == <<"T","i","m","e","o","u","t">>
w_set_open == <<"s","e","t","-","o","p","e","n">>
w_get_open == <<"g","e","t","-","o","p","e","n">>
w_not_supported == <<"n","o","t","-","s","u","p","p","o","r","t","e","d">>

\* usherrors (ushreserved.h): codes of the controller and of the adapter
ctr_ok == 0
ctr_busy == 1
ctr_device_not_recognized == 2
ctr_device_command_not_recognized == 3
ctr_device_command_value_not_allowed == 4
ctr_device_timeout == 5
adp_version_mismatch == 101
adp_lost_communication == 102
adp_string_not_recognized == 103
adp_device_not_recognized == 104
adp_device_command_not_recognized == 105
adp_device_command_value_not_allowed == 106

\* MMDevice return codes (MMDeviceConstants.h)
DEVICE_OK == 0
DEVICE_ERR == 1
DEVICE_UNSUPPORTED_COMMAND == 11
DEVICE_SERIAL_COMMAND_FAILED == 14

(***************************************************************************)
(* Frame codec                                                             *)
(***************************************************************************)

\* std::string::find(sep, from): the first position >= from holding sep,
\* 1-based; 0 stands for string::npos
RECURSIVE Find(_, _, _)
Find(line, sep, from) ==
  IF from > Len(line) THEN 0
  ELSE IF line[from] = sep THEN from
  ELSE Find(line, sep, from + 1)

\* a loop that does not push a last word that is empty
RECURSIVE SplitLoop_DropsLast(_, _, _, _, _)
SplitLoop_DropsLast(line, sep, pos1, pos2, retwords) ==
  IF pos2 # 0
  THEN SplitLoop_DropsLast(line, sep, pos2, Find(line, sep, pos2 + 1),
                           Append(retwords, SubSeq(line, pos1 + 1, pos2 - 1)))
  ELSE IF pos1 + 1 > Len(line) THEN retwords
  ELSE Append(retwords, SubSeq(line, pos1 + 1, Len(line)))

\* the while loop of SplitStringIntoWords: pos1 is the separator before the
\* current word (0 at the start), pos2 the next separator (0 = npos)
RECURSIVE SplitLoop(_, _, _, _, _)
SplitLoop(line, sep, pos1, pos2, retwords) ==
  IF pos2 # 0
  THEN SplitLoop(line, sep, pos2, Find(line, sep, pos2 + 1),
                 Append(retwords, SubSeq(line, pos1 + 1, pos2 - 1)))
  ELSE Append(retwords, SubSeq(line, pos1 + 1, Len(line)))

\* a split that pushes nothing for a line without characters
SplitStringIntoWords_NoWords(line, sep) ==
  LET pos2 == Find(line, sep, 1)
  IN IF Len(line) = 0 THEN <<>>
     ELSE IF pos2 = 0 THEN <<line>>
     ELSE SplitLoop(line, sep, 0, pos2, <<>>)

\* "if (pos2 == pos1)": no separator in the line, the line is the one word
SplitStringIntoWords(line, sep) ==
  LET pos2 == Find(line, sep, 1)
  IN IF pos2 = 0 THEN <<line>>
     ELSE SplitLoop(line, sep, 0, pos2, <<>>)

\* the inverse used when frames are built: words joined by sep
RECURSIVE JoinWords(_, _)
JoinWords(words, sep) ==
  IF Len(words) = 0 THEN <<>>
  ELSE IF Len(words) = 1 THEN words[1]
  ELSE words[1] \o <<sep>> \o JoinWords(Tail(words), sep)

(***************************************************************************)
(* Number parsing and formatting                                           *)
(***************************************************************************)
Digits == <<"0","1","2","3","4","5","6","7","8","9">>

IsDigit(c) == \E i \in 1..10 : Digits[i] = c

DigitValue(c) == (CHOOSE i \in 1..10 : Digits[i] = c) - 1

\* value of the longest run of digits at the start of s (0 if none)
RECURSIVE DigitsPrefix(_, _)
DigitsPrefix(s, acc) ==
  IF Len(s) = 0 \/ ~IsDigit(s[1]) THEN acc
  ELSE DigitsPrefix(Tail(s), 10 * acc + DigitValue(s[1]))

\* atoi: optional sign, then digits; anything unparsable yields 0
atoi(s) ==
  IF Len(s) > 0 /\ s[1] = "-" THEN 0 - DigitsPrefix(Tail(s), 0)
  ELSE IF Len(s) > 0 /\ s[1] = "+" THEN DigitsPrefix(Tail(s), 0)
  ELSE DigitsPrefix(s, 0)

\* atof on the integral numerals the model uses
atof(s) == atoi(s)

HasNumber(s) ==
  \/ Len(s) > 0 /\ IsDigit(s[1])
  \/ Len(s) > 1 /\ s[1] \in {"-", "+"} /\ IsDigit(s[2])

\* std::stoi throws std::invalid_argument when no conversion can be performed
StoiThrows(s) == ~HasNumber(s)

\* std::stoi where it does not throw
stoi(s) == atoi(s)

\* decimal numeral of a natural number (operator<< / to_string of an int)
RECURSIVE NatToString(_)
NatToString(n) ==
  IF n < 10 THEN <<Digits[n + 1]>>
  ELSE NatToString(n \div 10) \o <<Digits[(n % 10) + 1]>>

to_string(n) == IF n < 0 THEN <<"-">> \o NatToString(0 - n) ELSE NatToString(n)

(***************************************************************************)
(* Device descriptions (mmdevicedescription, mmmethoddescription,          *)
(* mmpropertydescription) and the registry built by discovery              *)
(***************************************************************************)
kw_Shutter == <<"S","h","u","t","t","e","r">>
kw_State == <<"S","t","a","t","e">>
kw_Stage == <<"S","t","a","g","e">>
kw_XYStage == <<"X","Y","S","t","a","g","e">>
kw_Generic == <<"G","e","n","e","r","i","c">>

\* strncmp(name, tag, strlen(tag)) == 0
HasPrefix(name, tag) ==
  Len(name) >= Len(tag) /\ SubSeq(name, 1, Len(tag)) = tag

\* the MM::DeviceType of the object CreateDevice makes for a device name
CreateDevice(deviceName) ==
  IF HasPrefix(deviceName, kw_Shutter) THEN "ShutterDevice"
  ELSE IF HasPrefix(deviceName, kw_State) THEN "StateDevice"
  ELSE IF HasPrefix(deviceName, kw_Stage) THEN "StageDevice"
  ELSE IF HasPrefix(deviceName, kw_XYStage) THEN "XYStageDevice"
  ELSE IF HasPrefix(deviceName, kw_Generic) THEN "GenericDevice"
  ELSE "none"

\* InitializeModuleData: a description is registered as a device only if it
\* is valid and its type string is one of the five kind strings
Registered(d) ==
  d.isValid /\ d.type \in {kw_Shutter, kw_State, kw_Stage, kw_XYStage, kw_Generic}

Method(m, c) == [method |-> m, command |-> c]

IntegerActionProperty(n, v, cmd, lo, hi) ==
  [name |-> n, type |-> "Integer", valueString |-> <<>>, valueInteger |-> v,
   valueFloat |-> 0, isReadOnly |-> FALSE, isAction |-> TRUE, cmdAction |-> cmd,
   isPreini |-> FALSE, allowedValues |-> <<>>,
   lowerLimitInteger |-> lo, upperLimitInteger |-> hi,
   lowerLimitFloat |-> 0, upperLimitFloat |-> 0]

StringActionProperty(n, v, cmd, allowed) ==
  [name |-> n, type |-> "String", valueString |-> v, valueInteger |-> 0,
   valueFloat |-> 0, isReadOnly |-> FALSE, isAction |-> TRUE, cmdAction |-> cmd,
   isPreini |-> FALSE, allowedValues |-> allowed,
   lowerLimitInteger |-> 0, upperLimitInteger |-> 0,
   lowerLimitFloat |-> 0, upperLimitFloat |-> 0]

Shutter1 == <<"S","h","u","t","t","e","r","1">>
State1 == <<"S","t","a","t","e","1">>
Ghost == <<"G","h","o","s","t">>

cmdO == <<"O">>
cmdP == <<"P">>
cmdM == <<"M">>
cmdX == <<"X">>

\* timeouts of the two instruments: MM::MMTime(1000 * atof(value))
ShutterTimeoutWire == <<"5","0","0">>
StateTimeoutWire == <<"2","5","0">>

TimeoutFromWire(word) == 1000 * atof(word)

\* The registry as discovery leaves it for the setup lines
\*   Name,Shutter1 / Timeout,500 / CommandAction,set-open,O /
\*   PropertyIntegerAction,Power,1,false,P,false,1;2
\*   Name,State1 / Timeout,250 / PropertyStringAction,Mode,a,false,M,false,a;b
DiscoveredList ==
  << [name |-> Shutter1, type |-> kw_Shutter, description |-> <<>>,
      timeout |-> TimeoutFromWire(ShutterTimeoutWire), isValid |-> TRUE,
      reasonWhyInvalid |-> <<>>,
      methods |-> << Method(w_set_open, cmdO) >>,
      properties |-> << IntegerActionProperty(<<"P","o","w","e","r">>, 1, cmdP, 1, 2) >>],
     [name |-> State1, type |-> kw_State, description |-> <<>>,
      timeout |-> TimeoutFromWire(StateTimeoutWire), isValid |-> TRUE,
      reasonWhyInvalid |-> <<>>,
      methods |-> <<>>,
      properties |-> << StringActionProperty(<<"M","o","d","e">>, <<"a">>, cmdM,
                                              << <<"a">>, <<"b">> >>) >>] >>

NoDevice == 0

\* first index of the description with this name, NoDevice (-1 in the code) if none
RECURSIVE IndexFromName(_, _, _)
IndexFromName(list, devicename, ii) ==
  IF ii > Len(list) THEN NoDevice
  ELSE IF list[ii].name = devicename THEN ii
  ELSE IndexFromName(list, devicename, ii + 1)

GetDeviceIndexFromName(list, devicename) == IndexFromName(list, devicename, 1)

\* CDeviceBase::GetDevice(label): the loaded device of that name, if the core
\* has one; devices are loaded for the registered descriptions only
GetDevice(list, devicename) ==
  LET loaded == {i \in DOMAIN list : list[i].name = devicename /\ Registered(list[i])}
  IN IF loaded = {} THEN NoDevice
     ELSE CHOOSE i \in loaded : \A j \in loaded : i <= j

GetType(list, index) == CreateDevice(list[index].name)

(***************************************************************************)
(* Discovery: the words of setup lines and VectorstrToDeviceDescription    *)
(***************************************************************************)
\* the reserved words of ushreserved.h that setup lines and discovery use
ushwords ==
  [device_list_start |-> <<"l","i","s","t","-","s","t","a","r","t">>, device_list_continue |-> <<"l","i","s","t","-","c","o","n","t","i","n","u","e">>,
   device_list_end |-> <<"l","i","s","t","-","e","n","d">>, cmd |-> <<"C","o","m","m","a","n","d","A","c","t","i","o","n">>,
   prop |-> <<"P","r","o","p","e","r","t","y">>, act |-> <<"A","c","t","i","o","n">>,
   prop_str |-> <<"P","r","o","p","e","r","t","y","S","t","r","i","n","g">>, prop_int |-> <<"P","r","o","p","e","r","t","y","I","n","t","e","g","e","r">>,
   prop_float |-> <<"P","r","o","p","e","r","t","y","F","l","o","a","t">>, prop_str_act |-> <<"P","r","o","p","e","r","t","y","S","t","r","i","n","g","A","c","t","i","o","n">>,
   prop_int_act |-> <<"P","r","o","p","e","r","t","y","I","n","t","e","g","e","r","A","c","t","i","o","n">>,
   prop_float_act |-> <<"P","r","o","p","e","r","t","y","F","l","o","a","t","A","c","t","i","o","n">>,
   wtrue |-> <<"t","r","u","e">>, wfalse |-> <<"f","a","l","s","e">>,
   set_position_um |-> <<"s","e","t","-","p","o","s","i","t","i","o","n">>, get_position_um |-> <<"g","e","t","-","p","o","s","i","t","i","o","n">>,
   home |-> <<"h","o","m","e">>, stop |-> <<"s","t","o","p">>]

\* MM::g_Keyword_Name, MM::g_Keyword_Description, MM::g_Keyword_Position
g_Keyword ==
  [Name |-> <<"N","a","m","e">>, Description |-> <<"D","e","s","c","r","i","p","t","i","o","n">>, Position |-> <<"P","o","s","i","t","i","o","n">>]

\* what std::string::operator=(char) leaves in devdescr.type when it is
\* assigned the enumerator MM::GenericDevice: a string of one character
type_GenericDevice == << "char(MM::GenericDevice)" >>

\* a default-constructed mmdevicedescription with isValid set
EmptyDescription ==
  [name |-> <<>>, type |-> <<>>, description |-> <<>>, timeout |-> 0,
   isValid |-> TRUE, reasonWhyInvalid |-> <<>>, methods |-> <<>>,
   properties |-> <<>>]

\* std::string::find(sub) != npos
Contains(s, sub) ==
  \E i \in 1..(Len(s) - Len(sub) + 1) : SubSeq(s, i, i + Len(sub) - 1) = sub

\* isValid = false; reasonWhyInvalid.append(text); .append(s); break
Invalid(st, text, s) ==
  [d |-> [st.d EXCEPT !.isValid = FALSE,
                      !.reasonWhyInvalid = @ \o <<text, s>>],
   status |-> "break"]

\* an exception leaves the function: std::out_of_range of words.at(2),
\* std::invalid_argument of stoi / stof
Throws(st) == [st EXCEPT !.status = "throw"]

\* the type of a property line's key, "none" if it is no property key
PropertyType(key, isAct) ==
  IF key = (IF isAct THEN ushwords.prop_str_act ELSE ushwords.prop_str) THEN "String"
  ELSE IF key = (IF isAct THEN ushwords.prop_float_act ELSE ushwords.prop_float) THEN "Float"
  ELSE IF key = (IF isAct THEN ushwords.prop_int_act ELSE ushwords.prop_int) THEN "Integer"
  ELSE "none"

\* the branch of a property line; u is what a bool the code never assigned
\* reads as
ParseProperty(st, s, words, u) ==
  LET isAct == Contains(words[1], ushwords.act)
      size == IF isAct THEN 7 ELSE 5
      type == PropertyType(words[1], isAct)
      list == SplitStringIntoWords(words[size], sepWithin)
      status == IF isAct THEN "Unable to determine read-only status "
                ELSE "Unable to determine read-only status: "
      pd == [name |-> words[2], type |-> type, valueString |-> <<>>,
             valueInteger |-> 0, valueFloat |-> 0, isReadOnly |-> u,
             isAction |-> isAct,
             cmdAction |-> IF isAct THEN words[5] ELSE <<>>,
             isPreini |-> IF isAct /\ words[6] = ushwords.wtrue THEN TRUE
                          ELSE IF isAct /\ words[6] = ushwords.wfalse THEN FALSE
                          ELSE u,
             allowedValues |-> <<>>,
             lowerLimitInteger |-> 0, upperLimitInteger |-> 0,
             lowerLimitFloat |-> 0, upperLimitFloat |-> 0]
      push(p) == [st EXCEPT !.d.properties = Append(@, p)]
  IN IF Len(words) # size THEN Invalid(st, "Invalid property: ", s)
     ELSE IF type = "String"
     THEN IF words[4] = ushwords.wtrue
          THEN push([pd EXCEPT !.valueString = words[3], !.isReadOnly = TRUE])
          ELSE IF words[4] = ushwords.wfalse
          THEN push([pd EXCEPT !.valueString = words[3], !.isReadOnly = FALSE,
                               !.allowedValues = list])
          ELSE Invalid(st, status, s)
     ELSE IF type \in {"Float", "Integer"}
     THEN IF StoiThrows(words[3]) THEN Throws(st)
          ELSE IF words[4] = ushwords.wtrue
          THEN push(IF type = "Float"
                    THEN [pd EXCEPT !.valueFloat = stoi(words[3]), !.isReadOnly = TRUE]
                    ELSE [pd EXCEPT !.valueInteger = stoi(words[3]), !.isReadOnly = TRUE])
          ELSE IF words[4] = ushwords.wfalse
          THEN IF Len(list) # 2
               THEN Invalid(st, "Unable to determine property limits: ", s)
               ELSE IF StoiThrows(list[1]) \/ StoiThrows(list[2]) THEN Throws(st)
               ELSE push(IF type = "Float"
                         THEN [pd EXCEPT !.valueFloat = stoi(words[3]),
                                         !.isReadOnly = FALSE,
                                         !.lowerLimitFloat = stoi(list[1]),
                                         !.upperLimitFloat = stoi(list[2])]
                         ELSE [pd EXCEPT !.valueInteger = stoi(words[3]),
                                         !.isReadOnly = FALSE,
                                         !.lowerLimitInteger = stoi(list[1]),
                                         !.upperLimitInteger = stoi(list[2])])
          ELSE Invalid(st, "Unable to determine read-only status: ", s)
     ELSE Invalid(st, "Unable to determine property type: ", s)

\* the type assigned for a Name line, <<>> if the name has no known prefix
TypeOfName(name) ==
  IF HasPrefix(name, kw_Shutter) THEN kw_Shutter
  ELSE IF HasPrefix(name, kw_State) THEN kw_State
  ELSE IF HasPrefix(name, kw_Stage) THEN kw_Stage
  ELSE IF HasPrefix(name, kw_XYStage) THEN kw_XYStage
  ELSE IF HasPrefix(name, kw_Generic) THEN type_GenericDevice
  ELSE <<>>

\* one round of the for loop of VectorstrToDeviceDescription, for the line s
ParseLine(st, s, u) ==
  LET words == SplitStringIntoWords(s, sepSetup)
  IN IF Len(words) < 2 THEN Invalid(st, "Invalid string: ", s)
     ELSE IF words[1] = g_Keyword.Name
     THEN IF TypeOfName(words[2]) = <<>>
          THEN Invalid([st EXCEPT !.d.name = words[2]],
                       "Unable to determine device type for ", s)
          ELSE [st EXCEPT !.d.name = words[2], !.d.type = TypeOfName(words[2])]
     ELSE IF words[1] = g_Keyword.Description
     THEN [st EXCEPT !.d.description = words[2]]
     ELSE IF words[1] = w_timeout
     THEN [st EXCEPT !.d.timeout = TimeoutFromWire(words[2])]
     ELSE IF words[1] = ushwords.cmd
     THEN IF Len(words) < 3 THEN Throws(st)
          ELSE [st EXCEPT !.d.methods = Append(@, Method(words[2], words[3]))]
     ELSE IF HasPrefix(words[1], ushwords.prop)
     THEN ParseProperty(st, s, words, u)
     ELSE st

RECURSIVE ParseLines(_, _, _, _)
ParseLines(vs, ii, st, u) ==
  IF ii > Len(vs) \/ st.status # "run" THEN st
  ELSE ParseLines(vs, ii + 1, ParseLine(st, vs[ii], u), u)

\* the description made of a group of setup lines, and whether an exception
\* left the function instead
VectorstrToDeviceDescription(vs, u) ==
  LET st == ParseLines(vs, 1, [d |-> EmptyDescription, status |-> "run"], u)
  IN [dd |-> st.d, threw |-> st.status = "throw"]

(***************************************************************************)
(* Hub state.  The operators below take and return a record h holding      *)
(*   ddl    the deviceDescriptionList                                      *)
(*   dev    per registry index: the device object's busy flag, timeout,    *)
(*          last command time, updating flag and cached open state         *)
(*   error_, errorDescription   the hub's "Error" / "Error Description"    *)
(***************************************************************************)

ErrorText(err) ==
  CASE err = adp_version_mismatch -> "Version number specified by the controller is not supported by this adapter ("
    [] err = adp_lost_communication -> "Lost communication with the controller ("
    [] err = adp_string_not_recognized -> "Unable to parse string returned by the controller ("
    [] err = adp_device_not_recognized -> "Device was not recognized ("
    [] err = adp_device_command_not_recognized -> "Device command was not recognized ("
    [] err = adp_device_command_value_not_allowed -> "Device command value was not recognized ("
    [] err = ctr_device_not_recognized -> "Device was not recognized by the controller ("
    [] err = ctr_device_command_not_recognized -> "Device command was not recognized by the controller ("
    [] err = ctr_device_command_value_not_allowed -> "Device command value not allowed by the controller ("
    [] err = ctr_device_timeout -> "Controller reported timeout ("
    [] OTHER -> "Unknown error ("

\* the text WriteError builds: "USH error: " text addonstr "); error code " err
ErrorMessage(addonstr, err) ==
  [prefix |-> "USH error: ", text |-> ErrorText(err), addon |-> addonstr,
   suffix |-> "); error code ", code |-> err]

\* the value "none" that Initialize gives the property "Error Description",
\* as a message with no other part
DescriptionNone ==
  [prefix |-> "", text |-> "none", addon |-> <<>>, suffix |-> "", code |-> 0]

WriteError(h, addonstr, err) ==
  [h EXCEPT !.error_ = err, !.errorDescription = ErrorMessage(addonstr, err)]

\* devicename "," command "," then the values separated by ","
ReportErrorAddon(devicename, command, vals) ==
  devicename \o <<",">> \o command \o <<",">> \o JoinWords(vals, ",")

ReportErrorForDevice(h, devicename, command, vals, err) ==
  [h |-> WriteError(h, ReportErrorAddon(devicename, command, vals), err), ret |-> err]

ReportTimeoutError(h, name) == WriteError(h, name, adp_lost_communication)

\* a busy flag that is shared by the devices of the hub
SetBusy_EveryDevice(h, index, val) ==
  [h EXCEPT !.dev = [i \in DOMAIN h.dev |-> [h.dev[i] EXCEPT !.busy = val]]]

SetBusy(h, index, val) == [h EXCEPT !.dev[index].busy = val]

SetLastCommandTime(h, index, t) == [h EXCEPT !.dev[index].lastCommandTime = t]

SetTimeout(h, index, t) == [h EXCEPT !.dev[index].timeout = t]

SetUpdating(h, index, val) == [h EXCEPT !.dev[index].updating = val]

\* Busy() of a device object
Busy(h, index) ==
  IF ~h.dev[index].initialized_ THEN FALSE ELSE h.dev[index].busy

\* a scan of the methods that finds none
FindMethodByCommand_None(methods, command, ii) == 0

\* first method of the description whose command is the given one, 0 if none
RECURSIVE FindMethodByCommand(_, _, _)
FindMethodByCommand(methods, command, ii) ==
  IF ii > Len(methods) THEN 0
  ELSE IF methods[ii].command = command THEN ii
  ELSE FindMethodByCommand(methods, command, ii + 1)

\* a scan that stops at the first property whatever its command
FindPropertyByCommand_First(properties, command, ii) ==
  IF Len(properties) = 0 THEN 0 ELSE 1

\* first property of the description whose cmdAction is the given command
RECURSIVE FindPropertyByCommand(_, _, _)
FindPropertyByCommand(properties, command, ii) ==
  IF ii > Len(properties) THEN 0
  ELSE IF properties[ii].cmdAction = command THEN ii
  ELSE FindPropertyByCommand(properties, command, ii + 1)

\* the loop over pd.allowedValues: the index jj it stops at
RECURSIVE AllowedIndex(_, _, _)
AllowedIndex(allowedValues, val, jj) ==
  IF jj > Len(allowedValues) THEN jj
  ELSE IF allowedValues[jj] = val THEN jj
  ELSE AllowedIndex(allowedValues, val, jj + 1)

\* a scan that takes any value for an allowed one
StringAllowed_Any(pd, val) == TRUE

StringAllowed(pd, val) ==
  AllowedIndex(pd.allowedValues, val, 1) # Len(pd.allowedValues) + 1

\* limits taken as exclusive
IntegerOutOfLimits_Exclusive(pd, value) ==
  value <= pd.lowerLimitInteger \/ value >= pd.upperLimitInteger

IntegerOutOfLimits(pd, value) ==
  value < pd.lowerLimitInteger \/ value > pd.upperLimitInteger

FloatOutOfLimits(pd, value) ==
  value < pd.lowerLimitFloat \/ value > pd.upperLimitFloat

\* "report a property change": the scan of d.properties for pd.cmdAction
ReportProperty(h, devicename, index, command, vals) ==
  LET d == h.ddl[index]
      ii == FindPropertyByCommand(d.properties, command, 1)
      pd == d.properties[ii]
      notAllowed == ReportErrorForDevice(h, devicename, command, vals,
                                         adp_device_command_value_not_allowed)
  IN IF ii = 0
     THEN ReportErrorForDevice(h, devicename, command, vals,
                               adp_device_command_not_recognized)
     ELSE IF pd.type = "String"
     THEN IF StringAllowed(pd, vals[1])
          THEN [h |-> [h EXCEPT !.ddl[index].properties[ii].valueString = vals[1]],
                ret |-> DEVICE_OK]
          ELSE notAllowed
     ELSE IF pd.type = "Integer"
     THEN IF IntegerOutOfLimits(pd, atoi(vals[1]))
          THEN notAllowed
          ELSE [h |-> [h EXCEPT !.ddl[index].properties[ii].valueInteger = atoi(vals[1])],
                ret |-> DEVICE_OK]
     ELSE IF pd.type = "Float"
     THEN IF FloatOutOfLimits(pd, atof(vals[1]))
          THEN notAllowed
          ELSE [h |-> [h EXCEPT !.ddl[index].properties[ii].valueFloat = atof(vals[1])],
                ret |-> DEVICE_OK]
     ELSE [h |-> h, ret |-> DEVICE_OK]

\* UshShutter::SetOpen when the updating flag is set: the value is a bool
SetOpenUpdating(h, index, open) ==
  [h |-> [h EXCEPT !.dev[index].open_ = open, !.dev[index].updating = FALSE],
   ret |-> DEVICE_OK]

\* "report a method change" of a shutter
ReportShutterMethod(h, index, md, vals) ==
  IF md.method = w_set_open \/ md.method = w_get_open
  THEN SetOpenUpdating(SetUpdating(h, index, TRUE), index, atoi(vals[1]) # 0)
  ELSE [h |-> h, ret |-> DEVICE_OK]

\* index of the first property named Position, 0 if none
RECURSIVE PositionIndex(_, _)
PositionIndex(properties, ii) ==
  IF ii > Len(properties) THEN 0
  ELSE IF properties[ii].name = g_Keyword.Position THEN ii
  ELSE PositionIndex(properties, ii + 1)

\* HasProperty(MM::g_Keyword_Position): UshStage::Initialize creates the
\* properties that are not pre-initialization properties
HasPositionProperty(d) ==
  \E ii \in 1..Len(d.properties) :
    d.properties[ii].name = g_Keyword.Position /\ ~d.properties[ii].isPreini

\* UshStage::SetPositionUm when the updating flag is set: the position is
\* stored in position_um_ and in valueFloat of the Position property
SetPositionUpdating(h, index, pos) ==
  LET d == h.ddl[index]
      pi == PositionIndex(d.properties, 1)
      h1 == [h EXCEPT !.dev[index].position_um_ = pos]
      h2 == IF HasPositionProperty(d)
            THEN [h1 EXCEPT !.ddl[index].properties[pi].valueFloat = pos]
            ELSE h1
  IN IF pos < h.dev[index].lowerLimit_um_ \/ pos > h.dev[index].upperLimit_um_
     THEN [h |-> h, ret |-> adp_device_command_value_not_allowed]
     ELSE [h |-> SetUpdating(h2, index, FALSE), ret |-> DEVICE_OK]

\* "report a method change" of a stage
ReportStageMethod(h, index, md, vals) ==
  IF md.method \in {ushwords.set_position_um, ushwords.get_position_um,
                    ushwords.home, ushwords.stop}
  THEN SetPositionUpdating(SetUpdating(h, index, TRUE), index, atof(vals[1]))
  ELSE [h |-> h, ret |-> DEVICE_OK]

\* OnAction with MM::BeforeGet: the value handed to the property, read from
\* the variant that the property's type names
BeforeGet(pd) ==
  IF pd.type = "String" THEN pd.valueString
  ELSE IF pd.type = "Integer" THEN pd.valueInteger
  ELSE pd.valueFloat

\* "report timeout change"
ReportTimeout(h, index, vals, nowv) ==
  [h |-> SetTimeout(SetLastCommandTime(h, index, nowv), index, atof(vals[1]) * 1000),
   ret |-> DEVICE_OK]

\* a report that looks the command up among the methods of a stage first
ReportToDevice_LookupFirst(h, devicename, command, vals, nowv) ==
  LET pDevice == GetDevice(h.ddl, devicename)
      type == GetType(h.ddl, pDevice)
      index == GetDeviceIndexFromName(h.ddl, devicename)
      d == h.ddl[index]
      mi == FindMethodByCommand(d.methods, command, 1)
  IN IF type = "ShutterDevice"
     THEN IF command = w_timeout THEN ReportTimeout(h, index, vals, nowv)
          ELSE IF mi # 0 THEN ReportShutterMethod(h, index, d.methods[mi], vals)
          ELSE ReportProperty(h, devicename, index, command, vals)
     ELSE IF type \in {"StateDevice", "GenericDevice"}
     THEN IF command = w_timeout THEN ReportTimeout(h, index, vals, nowv)
          ELSE ReportProperty(h, devicename, index, command, vals)
     ELSE IF type = "StageDevice"
     THEN IF mi # 0 THEN ReportStageMethod(h, index, d.methods[mi], vals)
          ELSE IF command = w_timeout THEN ReportTimeout(h, index, vals, nowv)
          ELSE ReportProperty(h, devicename, index, command, vals)
     ELSE \* the branch of the XY stages; "return DEVICE_ERR" for none
          [h |-> h, ret |-> DEVICE_ERR]

ReportToDevice(h, devicename, command, vals, nowv) ==
  LET pDevice == GetDevice(h.ddl, devicename)
      type == GetType(h.ddl, pDevice)
      index == GetDeviceIndexFromName(h.ddl, devicename)
      d == h.ddl[index]
      mi == FindMethodByCommand(d.methods, command, 1)
  IN IF type = "ShutterDevice"
     THEN IF command = w_timeout THEN ReportTimeout(h, index, vals, nowv)
          ELSE IF mi # 0 THEN ReportShutterMethod(h, index, d.methods[mi], vals)
          ELSE ReportProperty(h, devicename, index, command, vals)
     ELSE IF type \in {"StateDevice", "GenericDevice"}
     THEN IF command = w_timeout THEN ReportTimeout(h, index, vals, nowv)
          ELSE ReportProperty(h, devicename, index, command, vals)
     ELSE IF type = "StageDevice"
     THEN IF command = w_timeout THEN ReportTimeout(h, index, vals, nowv)
          ELSE IF mi # 0 THEN ReportStageMethod(h, index, d.methods[mi], vals)
          ELSE ReportProperty(h, devicename, index, command, vals)
     ELSE \* the branch of the XY stages; "return DEVICE_ERR" for none
          [h |-> h, ret |-> DEVICE_ERR]

(***************************************************************************)
(* BusyThread::svc: what one cycle does with the outcome of its read       *)
(***************************************************************************)

\* a check that reports every rejected frame as unparsable
CheckIncomingCommand_OneCode(h, vs) ==
  IF Len(vs) # 3 \/ GetDevice(h.ddl, vs[1]) = NoDevice
  THEN adp_string_not_recognized
  ELSE DEVICE_OK

CheckIncomingCommand(h, vs) ==
  IF Len(vs) # 3 THEN adp_string_not_recognized
  ELSE IF GetDevice(h.ddl, vs[1]) = NoDevice THEN adp_device_not_recognized
  ELSE DEVICE_OK

\* a comparison that fires at the deadline itself
TimedOut_AtDeadline(h, index, nowv) ==
  nowv - h.dev[index].lastCommandTime >= h.dev[index].timeout

\* (now - last command time) > timeout of the device
TimedOut(h, index, nowv) ==
  nowv - h.dev[index].lastCommandTime > h.dev[index].timeout

\* the for loop over listOfBusyDevices: position of the first one that has
\* timed out, 0 if none
RECURSIVE FirstTimedOut(_, _, _, _)
FirstTimedOut(h, list, nowv, ii) ==
  IF ii > Len(list) THEN 0
  ELSE IF TimedOut(h, list[ii], nowv) THEN ii
  ELSE FirstTimedOut(h, list, nowv, ii + 1)

\* ReceiveAnswer when no line arrived: a return code that is not DEVICE_OK
NoAnswer == [ret |-> DEVICE_SERIAL_COMMAND_FAILED, ans |-> <<>>]

\* what a cycle did: got is what ReceiveAnswer returned (ret and the line ans),
\* kind the branch taken, dev the device concerned, err the error code of the
\* frame or of the error written, forwarded whether ReportToDevice was
\* called and ret what it returned
NoEvent == [kind |-> "none", got |-> NoAnswer, dev |-> NoDevice, err |-> 0,
            forwarded |-> FALSE, ret |-> 0]

\* a scan without the break: every listed device that has timed out is set
\* not busy
NoActivity_NoBreak(h, list, nowv) ==
  LET k == FirstTimedOut(h, list, nowv, 1)
      timed == {list[j] : j \in {jj \in 1..Len(list) : TimedOut(h, list[jj], nowv)}}
      cleared == [h EXCEPT !.dev = [i \in DOMAIN h.dev |->
                                      IF i \in timed THEN [h.dev[i] EXCEPT !.busy = FALSE]
                                      ELSE h.dev[i]]]
  IN IF k = 0
     THEN [h |-> h, ev |-> [NoEvent EXCEPT !.kind = "noactivity"]]
     ELSE [h |-> ReportTimeoutError(cleared, h.ddl[list[k]].name),
           ev |-> [NoEvent EXCEPT !.kind = "timeout", !.dev = list[k],
                                  !.err = adp_lost_communication]]

\* ret != DEVICE_OK: "no communication received therefore check timeout values"
NoActivity(h, list, nowv) ==
  LET k == FirstTimedOut(h, list, nowv, 1)
  IN IF k = 0
     THEN [h |-> h, ev |-> [NoEvent EXCEPT !.kind = "noactivity"]]
     ELSE [h |-> ReportTimeoutError(SetBusy(h, list[k], FALSE), h.ddl[list[k]].name),
           ev |-> [NoEvent EXCEPT !.kind = "timeout", !.dev = list[k],
                                  !.err = adp_lost_communication]]

\* a handler that takes a busy frame for an acknowledgement
HandleErrorCode_BusyClears(h, index, ans, err, nowv) ==
  IF err = ctr_ok \/ err = ctr_busy THEN SetBusy(h, index, FALSE)
  ELSE WriteError(SetBusy(h, index, FALSE), ans, err)

\* a handler that does not refresh the last command time on a busy frame
HandleErrorCode_NoRefresh(h, index, ans, err, nowv) ==
  IF err = ctr_ok THEN SetBusy(h, index, FALSE)
  ELSE IF err = ctr_busy THEN SetBusy(h, index, TRUE)
  ELSE WriteError(SetBusy(h, index, FALSE), ans, err)

\* a handler that takes an acknowledgement for the end of the last error
HandleErrorCode_ClearsError(h, index, ans, err, nowv) ==
  IF err = ctr_ok
  THEN [SetBusy(h, index, FALSE) EXCEPT !.error_ = 0,
                                        !.errorDescription = DescriptionNone]
  ELSE IF err = ctr_busy THEN SetLastCommandTime(SetBusy(h, index, TRUE), index, nowv)
  ELSE WriteError(SetBusy(h, index, FALSE), ans, err)

\* "handle errors": the busy flag after a frame with error code err
HandleErrorCode(h, index, ans, err, nowv) ==
  IF err = ctr_ok THEN SetBusy(h, index, FALSE)
  ELSE IF err = ctr_busy THEN SetLastCommandTime(SetBusy(h, index, TRUE), index, nowv)
  ELSE WriteError(SetBusy(h, index, FALSE), ans, err)

\* values reported back whatever the error code
ForwardsValues_Always(err, vals) == Len(vals) > 0

\* "report values back to the device"
ForwardsValues(err, vals) ==
  (err = ctr_ok \/ err = ctr_busy) /\ Len(vals) > 0

\* "communication received from the serial device"
DataReceived(h, ans, nowv) ==
  LET vs == SplitStringIntoWords(ans, sepIn)
      chk == CheckIncomingCommand(h, vs)
      devicename == vs[1]
      command == vs[2]
      allvals == SplitStringIntoWords(vs[3], sepWithin)
      strerr == allvals[1]
      vals == Tail(allvals)
      err == stoi(strerr)
      index == GetDevice(h.ddl, devicename)
      h1 == HandleErrorCode(h, index, ans, err, nowv)
      rep == ReportToDevice(h1, devicename, command, vals, nowv)
  IN IF chk # DEVICE_OK
     THEN [h |-> WriteError(h, ans, chk),
           ev |-> [NoEvent EXCEPT !.kind = "reject", !.err = chk]]
     ELSE IF StoiThrows(strerr)
     THEN [h |-> h, ev |-> [NoEvent EXCEPT !.kind = "throw", !.dev = index]]
     ELSE IF ForwardsValues(err, vals)
     THEN [h |-> rep.h,
           ev |-> [NoEvent EXCEPT !.kind = "frame", !.dev = index, !.err = err,
                                  !.forwarded = TRUE, !.ret = rep.ret]]
     ELSE [h |-> h1,
           ev |-> [NoEvent EXCEPT !.kind = "frame", !.dev = index, !.err = err]]

\* the devices whose Busy() is true, in registry order
RECURSIVE BusyDevices(_, _)
BusyDevices(h, ii) ==
  IF ii > Len(h.ddl) THEN <<>>
  ELSE IF GetDevice(h.ddl, h.ddl[ii].name) # NoDevice
          /\ Busy(h, GetDevice(h.ddl, h.ddl[ii].name))
       THEN <<GetDevice(h.ddl, h.ddl[ii].name)>> \o BusyDevices(h, ii + 1)
       ELSE BusyDevices(h, ii + 1)

(***************************************************************************)
(* Foreground calls                                                        *)
(***************************************************************************)
RECURSIVE FindMethodByName(_, _, _)
FindMethodByName(methods, methodName, ii) ==
  IF ii > Len(methods) THEN 0
  ELSE IF methods[ii].method = methodName THEN ii
  ELSE FindMethodByName(methods, methodName, ii + 1)

\* the command of the first method of that name; the empty string if none
ConvertMethodToCommand(h, deviceName, methodName) ==
  LET d == h.ddl[GetDeviceIndexFromName(h.ddl, deviceName)]
      ii == FindMethodByName(d.methods, methodName, 1)
  IN IF ii = 0 THEN <<>> ELSE d.methods[ii].command

\* a frame without the end of record
OutputCommand_NoEnd(devicename, command, values) ==
  devicename \o <<sepOut>> \o command \o <<sepOut>> \o JoinWords(values, sepWithin)

\* the frame MakeAndSendOutputCommand hands to SendCommand
OutputCommand(devicename, command, values) ==
  devicename \o <<sepOut>> \o command \o <<sepOut>>
    \o JoinWords(values, sepWithin) \o <<sepEnd>>

\* the frame OnAction builds after a property was set
ActionCommand(d, pd, value) ==
  d.name \o <<sepOut>> \o pd.cmdAction \o <<sepOut>> \o value \o <<sepEnd>>

\* to_string((long long)open)
BoolToString(open) == IF open THEN to_string(1) ELSE to_string(0)

\* a write that is repeated
SendSerialCommand_Twice(out, cmd) == Append(Append(out, cmd), cmd)

\* SendSerialCommand: what a successful write adds to the port's output
SendSerialCommand(out, cmd) == Append(out, cmd)

(***************************************************************************)
(* Bounds of the model                                                     *)
(***************************************************************************)
\* the clock stops after this many steps
MaxTicks == 3

\* Sleep(500) of the poll loop
SleepTime == 500000
\* granularity of the clock, and where it stops
TickStep == SleepTime
MaxTime == MaxTicks * TickStep
\* MM::MMTime intervalPortCheck(3e5)
intervalPortCheck == 300000

(***************************************************************************)
(* State                                                                   *)
(***************************************************************************)
VARIABLES
  deviceDescriptionList, \* the registry
  dev,                   \* the device objects, by registry index
  error_,                \* UniHub::error_
  errorDescription,      \* the hub's "Error Description" property
  now,                   \* GetCurrentMMTime()
  tx,                    \* lines written to the serial port, not yet taken
  rx,                    \* lines the controller wrote, not yet read
  executeLock_,          \* holder of UniHub::executeLock_, "free" if none
  inflight,              \* threads inside SendSerialCommand / GetSerialAnswer
  pcPoll,                \* position of BusyThread::svc
  listOfBusyDevices,     \* its local list
  lastPortCheck,         \* its local lastPortCheck
  pcFg,                  \* position of the foreground call
  fgCall,                \* the foreground call in progress
  lastEvent,             \* what the poll cycle in progress has done
  initialized_,          \* UniHub::initialized_
  stopbusythread_,       \* UniHub::stopbusythread_
  thr_                   \* the poll tasks UniHub::Initialize has activated

vars == <<deviceDescriptionList, dev, error_, errorDescription, now, tx, rx,
          executeLock_, inflight, pcPoll, listOfBusyDevices,
          lastPortCheck, pcFg, fgCall, lastEvent, initialized_,
          stopbusythread_, thr_>>

\* the hub's own flags and its poll task
lifecycle == <<initialized_, stopbusythread_, thr_>>

Hub == [ddl |-> deviceDescriptionList, dev |-> dev, error_ |-> error_,
        errorDescription |-> errorDescription]

Commit(h) ==
  /\ deviceDescriptionList' = h.ddl
  /\ dev' = h.dev
  /\ error_' = h.error_
  /\ errorDescription' = h.errorDescription

\* the limit a stage copies from its Position property (the Integer limits
\* of an Integer property, the Float limits otherwise); the registries of
\* the model give every stage a Position property
PositionLimit(d, upper) ==
  LET pi == PositionIndex(d.properties, 1)
      pd == d.properties[pi]
  IN IF pi = 0 THEN 0
     ELSE IF pd.type = "Integer"
     THEN (IF upper THEN pd.upperLimitInteger ELSE pd.lowerLimitInteger)
     ELSE (IF upper THEN pd.upperLimitFloat ELSE pd.lowerLimitFloat)

\* a device object after its Initialize(): timeout copied from the description,
\* not busy; a stage is at position 0 and has the limits of its Position
\* property
InitialDevice(d) ==
  [initialized_ |-> TRUE, busy |-> FALSE, timeout |-> d.timeout,
   lastCommandTime |-> 0, updating |-> FALSE, open_ |-> FALSE,
   position_um_ |-> 0, lowerLimit_um_ |-> PositionLimit(d, FALSE),
   upperLimit_um_ |-> PositionLimit(d, TRUE)]

\* no call in progress; ret is what the last call returned when it returned
\* without sending
NoCall ==
  [op |-> "none", dev |-> NoDevice, cmd |-> <<>>, open |-> FALSE, pos |-> 0,
   ret |-> DEVICE_OK]

Init ==
  /\ deviceDescriptionList = DiscoveredList
  /\ dev = [i \in 1..Len(DiscoveredList) |-> InitialDevice(DiscoveredList[i])]
  /\ error_ = 0
  /\ errorDescription = DescriptionNone
  /\ now = 0
  /\ tx = <<>>
  /\ rx = <<>>
  /\ executeLock_ = "free"
  /\ inflight = {}
  /\ pcPoll = "loop"
  /\ listOfBusyDevices = <<>>
  /\ lastPortCheck = 0
  /\ pcFg = "idle"
  /\ fgCall = NoCall
  /\ lastEvent = NoEvent
  /\ initialized_ = TRUE
  /\ stopbusythread_ = FALSE
  /\ thr_ = 1

(***************************************************************************)
(* The serial port                                                         *)
(***************************************************************************)

\* "MMThreadGuard(this->executeLock_);" in SerialCommunication constructs a
\* temporary guard: the lock is taken and released within that statement, so
\* the holder of the lock after the statement is nobody
MMThreadGuard(t) == "free"

\* a thread enters SerialCommunication and starts its port operation
EnterSerialCommunication(t) ==
  /\ executeLock_ = "free"
  /\ executeLock_' = MMThreadGuard(t)
  /\ inflight' = inflight \cup {t}

\* the port operation is over and SerialCommunication returns
LeaveSerialCommunication(t) ==
  /\ executeLock_' = IF executeLock_ = t THEN "free" ELSE executeLock_
  /\ inflight' = inflight \ {t}

\* frames the controller may send, as the line GetSerialAnswer returns
InboundFrame(name, command, values) ==
  name \o <<sepIn>> \o command \o <<sepIn>> \o JoinWords(values, sepWithin)

num0 == to_string(ctr_ok)
numBusy == to_string(ctr_busy)
numErr == to_string(ctr_device_timeout)

\* acknowledgements, busy and error frames, and frames that are rejected
CoreFrames ==
  { InboundFrame(Shutter1, cmdO, <<num0>>),
    InboundFrame(Shutter1, cmdO, <<numBusy>>),
    InboundFrame(Shutter1, cmdO, <<numErr, <<"1">> >>),
    InboundFrame(State1, cmdM, <<num0, <<"b">> >>),
    InboundFrame(Ghost, cmdX, <<num0>>),
    Shutter1 \o <<sepIn>> \o cmdO }

\* frames that report values
ReportFrames ==
  { InboundFrame(Shutter1, cmdO, <<num0, <<"1">> >>),
    InboundFrame(Shutter1, cmdO, <<numBusy, <<"0">> >>),
    InboundFrame(Shutter1, cmdP, <<num0, <<"0">> >>),
    InboundFrame(Shutter1, cmdP, <<num0, <<"1">> >>),
    InboundFrame(Shutter1, cmdP, <<num0, <<"2">> >>),
    InboundFrame(Shutter1, cmdP, <<num0, <<"3">> >>),
    InboundFrame(Shutter1, cmdP, <<numBusy, <<"2">> >>),
    InboundFrame(Shutter1, cmdP, <<numErr, <<"2">> >>),
    InboundFrame(Shutter1, cmdX, <<num0, <<"1">> >>),
    InboundFrame(Shutter1, w_timeout, <<num0, <<"2","5","0">> >>),
    InboundFrame(State1, cmdM, <<num0, <<"a">> >>),
    InboundFrame(State1, cmdM, <<num0, <<"b">> >>),
    InboundFrame(State1, cmdM, <<num0, <<"z">> >>),
    InboundFrame(State1, cmdX, <<numBusy, <<"b">> >>),
    InboundFrame(Ghost, cmdP, <<num0, <<"2">> >>),
    Shutter1 \o <<sepIn>> \o cmdP }

\* what GetSerialAnswer can return: a line the controller sent, or a failure
\* when no line arrived within the port's answer timeout
GetSerialAnswer(frames) ==
  {[ret |-> DEVICE_OK, ans |-> f] : f \in frames}
    \cup {NoAnswer}

\* the controller takes a line the hub wrote
ControllerReads ==
  /\ tx # <<>>
  /\ tx' = Tail(tx)
  /\ UNCHANGED <<deviceDescriptionList, dev, error_, errorDescription, now, executeLock_, inflight, pcPoll, listOfBusyDevices,
                 lastPortCheck, pcFg, fgCall, lastEvent>>
  /\ UNCHANGED lifecycle
  /\ UNCHANGED rx

\* time passes
Tick ==
  /\ now + TickStep <= MaxTime
  /\ now' = now + TickStep
  /\ UNCHANGED <<deviceDescriptionList, dev, error_, errorDescription, tx,
                 executeLock_, inflight, pcPoll, listOfBusyDevices,
                 lastPortCheck, pcFg, fgCall, lastEvent>>
  /\ UNCHANGED lifecycle
  /\ UNCHANGED rx

(***************************************************************************)
(* Foreground: UshShutter::SetOpen and the OnAction handlers               *)
(***************************************************************************)

\* a check that lets the not-supported word through as a command
Unsupported_AbsentOnly(cmd) == IF Len(cmd) = 0 THEN DEVICE_ERR ELSE DEVICE_OK

\* "if (cmd.length() == 0) return DEVICE_ERR;" and "if (strcmp(cmd.c_str(),
\* ushwords::not_supported) == 0) return DEVICE_UNSUPPORTED_COMMAND;":
\* the code returned before anything is sent, DEVICE_OK if the call goes on
Unsupported(cmd) ==
  IF Len(cmd) = 0 THEN DEVICE_ERR
  ELSE IF cmd = w_not_supported THEN DEVICE_UNSUPPORTED_COMMAND
  ELSE DEVICE_OK

\* SetOpen up to the point where the command is handed to the port
SetOpen(i, open) ==
  /\ pcFg = "idle"
  /\ tx = <<>>
  /\ GetType(deviceDescriptionList, i) = "ShutterDevice"
  /\ LET cmd == ConvertMethodToCommand(Hub, deviceDescriptionList[i].name, w_set_open)
     IN IF dev[i].updating
        THEN /\ Commit(SetOpenUpdating(Hub, i, open).h)
             /\ UNCHANGED <<executeLock_, inflight, pcFg, fgCall>>
        ELSE IF Unsupported(cmd) # DEVICE_OK
        THEN /\ fgCall' = [NoCall EXCEPT !.op = "SetOpen", !.dev = i,
                                         !.ret = Unsupported(cmd)]
             /\ UNCHANGED <<deviceDescriptionList, dev, error_, errorDescription,
                            executeLock_, inflight, pcFg>>
        ELSE /\ Commit(SetLastCommandTime(Hub, i, now))
             /\ EnterSerialCommunication("fg")
             /\ pcFg' = "send"
             /\ fgCall' = [NoCall EXCEPT
                             !.op = "SetOpen", !.dev = i, !.open = open,
                             !.cmd = OutputCommand(deviceDescriptionList[i].name, cmd,
                                                   <<BoolToString(open)>>)]
  /\ UNCHANGED <<now, tx, pcPoll, listOfBusyDevices, lastPortCheck, lastEvent>>
  /\ UNCHANGED lifecycle
  /\ UNCHANGED rx

\* the value OnAction is called with: the property layer lets through the
\* allowed values / the values within the limits; the model takes the last
SettableValues(pd) ==
  IF pd.type = "String" THEN {pd.allowedValues[Len(pd.allowedValues)]}
  ELSE {to_string(pd.upperLimitInteger)}

\* OnAction with MM::AfterSet for an action property that is not a
\* pre-initialization property: "set busy status, send command and exit"
OnAction(i, ii, value) ==
  /\ pcFg = "idle"
  /\ tx = <<>>
  /\ deviceDescriptionList[i].properties[ii].isAction
  /\ ~deviceDescriptionList[i].properties[ii].isPreini
  /\ Commit(SetLastCommandTime(Hub, i, now))
  /\ EnterSerialCommunication("fg")
  /\ pcFg' = "send"
  /\ fgCall' = [NoCall EXCEPT
                  !.op = "OnAction", !.dev = i,
                  !.cmd = ActionCommand(deviceDescriptionList[i],
                                        deviceDescriptionList[i].properties[ii], value)]
  /\ UNCHANGED <<now, tx, pcPoll, listOfBusyDevices, lastPortCheck, lastEvent>>
  /\ UNCHANGED lifecycle
  /\ UNCHANGED rx

\* what the call stores between the send and SetBusy(true): SetOpen
\* "open_ = open;", SetPositionUm "position_um_ = pos;", the others nothing
StoreAfterSend(h, call) ==
  IF call.op = "SetOpen" THEN [h EXCEPT !.dev[call.dev].open_ = call.open]
  ELSE IF call.op = "SetPositionUm"
  THEN [h EXCEPT !.dev[call.dev].position_um_ = call.pos]
  ELSE h

\* SendSerialCommand returns (with success or not) and the call finishes:
\* SetOpen stores open_, SetPositionUm position_um_, all set the busy flag
\* and all return what the send returned ("return ret;")
SendReturns(ok) ==
  /\ pcFg = "send"
  /\ tx' = IF ok THEN SendSerialCommand(tx, fgCall.cmd) ELSE tx
  /\ LeaveSerialCommunication("fg")
  /\ Commit(SetBusy(StoreAfterSend(Hub, fgCall), fgCall.dev, TRUE))
  /\ pcFg' = "idle"
  /\ fgCall' = [NoCall EXCEPT
                  !.ret = IF ok THEN DEVICE_OK ELSE DEVICE_SERIAL_COMMAND_FAILED]
  /\ UNCHANGED <<now, pcPoll, listOfBusyDevices, lastPortCheck, lastEvent>>
  /\ UNCHANGED lifecycle
  /\ UNCHANGED rx

(***************************************************************************)
(* BusyThread::svc                                                         *)
(***************************************************************************)

\* a loop that does not look at the flag
LoopCondition_Forever(stop) == TRUE

\* "while (!pHub_->stopbusythread_)"
LoopCondition(stop) == ~stop

\* whether this cycle reads the port
PortCheckDue(list, nowv, last) ==
  Len(list) > 0 \/ nowv - last > intervalPortCheck

\* "while (!pHub_->stopbusythread_)", Sleep(500), the list of busy devices,
\* and the start of ReceiveAnswer; t is what the clock reads after the sleep
PollCycleAt(t) ==
  /\ pcPoll = "loop"
  /\ LoopCondition(stopbusythread_)
  /\ now' = t
  /\ listOfBusyDevices' = BusyDevices(Hub, 1)
  /\ lastEvent' = NoEvent
  /\ IF PortCheckDue(listOfBusyDevices', now', lastPortCheck)
     THEN /\ lastPortCheck' = now'
          /\ EnterSerialCommunication("poll")
          /\ pcPoll' = "receive"
     ELSE UNCHANGED <<lastPortCheck, executeLock_, inflight, pcPoll>>
  /\ UNCHANGED <<deviceDescriptionList, dev, error_, errorDescription, tx,
                 pcFg, fgCall>>
  /\ UNCHANGED lifecycle
  /\ UNCHANGED rx

\* a cycle within the time the model follows
PollCycle == now + SleepTime <= MaxTime /\ PollCycleAt(now + SleepTime)

\* what the rest of the cycle does with the outcome of ReceiveAnswer
AfterReceive(h, list, got, nowv) ==
  IF got.ret # DEVICE_OK THEN NoActivity(h, list, nowv)
  ELSE DataReceived(h, got.ans, nowv)

\* ReceiveAnswer returns and the rest of the cycle acts on what it returned
PollReceive(got) ==
  /\ pcPoll = "receive"
  /\ LeaveSerialCommunication("poll")
  /\ LET r == AfterReceive(Hub, listOfBusyDevices, got, now)
     IN /\ Commit(r.h)
        /\ lastEvent' = [r.ev EXCEPT !.got = got]
        /\ pcPoll' = IF r.ev.kind = "throw" THEN "terminated" ELSE "loop"
  /\ rx' = IF got.ret = DEVICE_OK /\ rx # <<>> /\ got.ans = Head(rx) THEN Tail(rx)
           ELSE rx
  /\ UNCHANGED <<now, tx, listOfBusyDevices, lastPortCheck, pcFg, fgCall>>
  /\ UNCHANGED lifecycle

Foreground ==
  \/ \E i \in 1..Len(deviceDescriptionList), open \in BOOLEAN : SetOpen(i, open)
  \/ \E i \in 1..Len(deviceDescriptionList) :
       \E ii \in 1..Len(deviceDescriptionList[i].properties) :
         \E value \in SettableValues(deviceDescriptionList[i].properties[ii]) :
           OnAction(i, ii, value)
  \/ \E ok \in BOOLEAN : SendReturns(ok)

Next ==
  \/ ControllerReads
  \/ Tick
  \/ Foreground
  \/ PollCycle
  \/ \E got \in GetSerialAnswer(CoreFrames) : PollReceive(got)

Spec == Init /\ [][Next]_vars

\* the poll loop alone, fed with frames that report values
NextReport ==
  \/ PollCycle
  \/ \E got \in GetSerialAnswer(ReportFrames) : PollReceive(got)

SpecReport == Init /\ [][NextReport]_vars

(***************************************************************************)
(* The hub's property "Error": UniHub::OnError                             *)
(***************************************************************************)

\* OnError with MM::AfterSet: "error_ = val; if (error_ == 0)
\* SetProperty("Error Description", "none");"
AfterSetError(h, val) ==
  [h EXCEPT !.error_ = val,
            !.errorDescription = IF val = 0 THEN DescriptionNone ELSE @]

\* a write of val to the property "Error"; cmd holds the value written
OnError(val) ==
  /\ pcFg = "idle"
  /\ Commit(AfterSetError(Hub, val))
  /\ fgCall' = [NoCall EXCEPT !.op = "OnError", !.cmd = to_string(val)]
  /\ UNCHANGED <<now, tx, executeLock_, inflight, pcPoll, listOfBusyDevices,
                 lastPortCheck, pcFg, lastEvent>>
  /\ UNCHANGED lifecycle
  /\ UNCHANGED rx

\* the poll loop with frames that report values, and writes to "Error"
NextError ==
  \/ PollCycle
  \/ \E got \in GetSerialAnswer(ReportFrames) : PollReceive(got)
  \/ \E val \in {0, adp_lost_communication} : OnError(val)

SpecError == Init /\ [][NextError]_vars

(***************************************************************************)
(* Discovery: UniHub::PopulateDeviceDescriptionList, run by the hub's       *)
(* Initialize().  pcFg is its position and fgCall holds its locals.         *)
(***************************************************************************)

\* setup lines the controller may answer with: at most MaxLines per run
MaxLines == 3

\* MM::MMTime(1e6), the timeout of ReceiveAndWaitForAnswer
ReadTimeout == 1000000

SetupLine(words) == JoinWords(words, sepSetup)

Generic1 == <<"G","e","n","e","r","i","c","1">>
Power == <<"P","o","w","e","r">>

SetupLines ==
  { SetupLine(<<g_Keyword.Name, Shutter1>>),
    SetupLine(<<g_Keyword.Name, State1>>),
    SetupLine(<<g_Keyword.Name, Generic1>>),
    SetupLine(<<g_Keyword.Name, Ghost>>),
    SetupLine(<<w_timeout, ShutterTimeoutWire>>),
    SetupLine(<<ushwords.cmd, w_set_open, cmdO>>),
    SetupLine(<<ushwords.cmd, w_set_open>>),
    SetupLine(<<<<"F","o","o">>, <<"b","a","r">>>>),
    <<"F","o","o">>,
    SetupLine(<<ushwords.prop_int, Power, <<"1">>, ushwords.wfalse, <<"2",";","1">>>>),
    SetupLine(<<ushwords.prop_int, Power, <<"x">>, ushwords.wtrue, <<"0">>>>),
    SetupLine(<<ushwords.prop_int_act, Power, <<"1">>, ushwords.wfalse, cmdP,
                ushwords.wfalse, <<"1",";","2">>>>) }

\* ReceiveAndWaitForAnswer: reads are repeated until one succeeds or the
\* timeout has elapsed; got is the outcome of the last read
ReceiveAndWaitForAnswer(got, nowv, timeout) ==
  [ret |-> got.ret, ans |-> got.ans,
   now |-> IF got.ret = DEVICE_OK THEN nowv ELSE nowv + timeout]

\* the locals of PopulateDeviceDescriptionList; io and groups record what
\* it did: the port operations in order, and the line group of each
\* description it appended
Discovery ==
  [op |-> "PopulateDeviceDescriptionList", device_vecstr |-> <<>>,
   ans |-> <<>>, ret |-> DEVICE_OK, io |-> <<>>, groups |-> <<>>]

\* a loop that stops only when a read fails
LoopEnds_OnFailureOnly(ret, ans) == ret # DEVICE_OK

\* "while (ret==DEVICE_OK) { if (ans.compare(device_list_end)==0) break;"
LoopEnds(ret, ans) == ret # DEVICE_OK \/ ans = ushwords.device_list_end

InitDiscover ==
  /\ deviceDescriptionList = <<>>
  /\ dev = <<>>
  /\ error_ = 0
  /\ errorDescription = DescriptionNone
  /\ now = 0
  /\ tx = <<>>
  /\ rx = <<>>
  /\ executeLock_ = "free"
  /\ inflight = {}
  /\ pcPoll = "not-started"
  /\ listOfBusyDevices = <<>>
  /\ lastPortCheck = 0
  /\ pcFg = "list-start"
  /\ fgCall = Discovery
  /\ lastEvent = NoEvent
  /\ initialized_ = FALSE
  /\ stopbusythread_ = FALSE
  /\ thr_ = 0

\* the lines of the setup stream read so far
SetupLinesRead ==
  SelectSeq(fgCall.io, LAMBDA e : e.op = "read" /\ e.ret = DEVICE_OK
                                  /\ e.line # ushwords.device_list_end)

\* SendCommand(list-start); its return value is overwritten
DiscoverStart(ok) ==
  /\ pcFg = "list-start"
  /\ tx' = IF ok THEN SendSerialCommand(tx, ushwords.device_list_start \o <<sepEnd>>)
           ELSE tx
  /\ fgCall' = [fgCall EXCEPT !.io = Append(@, [op |-> "send", ret |-> DEVICE_OK,
                                               line |-> ushwords.device_list_start])]
  /\ pcFg' = "receive"
  /\ UNCHANGED <<deviceDescriptionList, dev, error_, errorDescription, now,
                 executeLock_, inflight, pcPoll, listOfBusyDevices,
                 lastPortCheck, lastEvent>>
  /\ UNCHANGED lifecycle
  /\ UNCHANGED rx

\* ReceiveAndWaitForAnswer returns, and the loop runs up to its next
\* SendCommand, or ends and the last description is made
DiscoverReceive(got) ==
  /\ pcFg = "receive"
  /\ (got.ret = DEVICE_OK /\ got.ans # ushwords.device_list_end)
        => Len(SetupLinesRead) < MaxLines
  /\ LET r == ReceiveAndWaitForAnswer(got, now, ReadTimeout)
         words == SplitStringIntoWords(r.ans, sepSetup)
         last == LoopEnds(r.ret, r.ans)
         closes == ~last /\ words[1] = g_Keyword.Name /\ Len(fgCall.device_vecstr) # 0
     IN \E u \in BOOLEAN :
          LET c == VectorstrToDeviceDescription(fgCall.device_vecstr, u)
              threw == (last \/ closes) /\ c.threw
          IN /\ now' = r.now
             /\ deviceDescriptionList' =
                  IF (last \/ closes) /\ ~threw
                  THEN Append(deviceDescriptionList, c.dd)
                  ELSE deviceDescriptionList
             /\ pcFg' = IF threw THEN "threw"
                        ELSE IF last THEN "returned"
                        ELSE "list-continue"
             /\ fgCall' =
                  [fgCall EXCEPT
                     !.ans = r.ans, !.ret = r.ret,
                     !.device_vecstr = IF threw \/ last THEN @
                                       ELSE IF closes THEN <<r.ans>>
                                       ELSE Append(@, r.ans),
                     !.groups = IF (last \/ closes) /\ ~threw
                                THEN Append(@, fgCall.device_vecstr)
                                ELSE @,
                     !.io = Append(@, [op |-> "read", ret |-> r.ret, line |-> r.ans])]
  /\ UNCHANGED <<dev, error_, errorDescription, tx, executeLock_, inflight,
                 pcPoll, listOfBusyDevices, lastPortCheck, lastEvent>>
  /\ UNCHANGED lifecycle
  /\ UNCHANGED rx

\* SendCommand(list-continue); "if (ret != DEVICE_OK) return ret;"
DiscoverContinue(ok) ==
  /\ pcFg = "list-continue"
  /\ tx' = IF ok THEN SendSerialCommand(tx, ushwords.device_list_continue \o <<sepEnd>>)
           ELSE tx
  /\ fgCall' = [fgCall EXCEPT
                  !.ret = IF ok THEN DEVICE_OK ELSE DEVICE_SERIAL_COMMAND_FAILED,
                  !.io = Append(@, [op |-> "send",
                                    ret |-> IF ok THEN DEVICE_OK
                                            ELSE DEVICE_SERIAL_COMMAND_FAILED,
                                    line |-> ushwords.device_list_continue])]
  /\ pcFg' = IF ok THEN "receive" ELSE "returned"
  /\ UNCHANGED <<deviceDescriptionList, dev, error_, errorDescription, now,
                 executeLock_, inflight, pcPoll, listOfBusyDevices,
                 lastPortCheck, lastEvent>>
  /\ UNCHANGED lifecycle
  /\ UNCHANGED rx

NextDiscover ==
  \/ \E ok \in BOOLEAN : DiscoverStart(ok)
  \/ \E got \in GetSerialAnswer(SetupLines \cup {ushwords.device_list_end}) :
       DiscoverReceive(got)
  \/ \E ok \in BOOLEAN : DiscoverContinue(ok)

SpecDiscover == InitDiscover /\ [][NextDiscover]_vars

(***************************************************************************)
(* A hub with one device, a shutter or a stage, whose description is made   *)
(* of a line group: the foreground calls SetOpen and Home, and the poll     *)
(* loop with frames that report positions and property values               *)
(***************************************************************************)
Stage1 == <<"S","t","a","g","e","1">>
cmdS == <<"S">>
cmdQ == <<"Q">>
cmdH == <<"H">>

NameLine(name) == SetupLine(<<g_Keyword.Name, name>>)

CommandLine(method, command) == SetupLine(<<ushwords.cmd, method, command>>)

\* an action property Position with value 0 and the limits 0 and 9
PositionLine(key) ==
  SetupLine(<<key, g_Keyword.Position, <<"0">>, ushwords.wfalse, cmdQ,
              ushwords.wfalse, <<"0",";","9">>>>)

\* an action property Position whose command is the word of the timeout
TimeoutPositionLine ==
  SetupLine(<<ushwords.prop_int_act, g_Keyword.Position, <<"0">>, ushwords.wfalse,
              w_timeout, ushwords.wfalse, <<"0",";","9">>>>)

DeviceGroups ==
  { << NameLine(Shutter1) >>,
    << NameLine(Shutter1), CommandLine(w_set_open, w_not_supported) >>,
    << NameLine(Shutter1), CommandLine(w_set_open, cmdO) >>,
    << NameLine(Stage1), CommandLine(ushwords.set_position_um, cmdS),
       PositionLine(ushwords.prop_int_act) >>,
    << NameLine(Stage1), CommandLine(ushwords.set_position_um, cmdS),
       CommandLine(ushwords.home, cmdH), PositionLine(ushwords.prop_float_act) >>,
    << NameLine(Stage1), CommandLine(ushwords.home, w_not_supported),
       PositionLine(ushwords.prop_int_act) >>,
    << NameLine(Stage1), CommandLine(ushwords.set_position_um, w_timeout),
       TimeoutPositionLine >>,
    << NameLine(Stage1), CommandLine(ushwords.stop, cmdQ),
       PositionLine(ushwords.prop_int_act) >>,
    << NameLine(Stage1), CommandLine(w_set_open, cmdQ),
       CommandLine(ushwords.stop, cmdQ), PositionLine(ushwords.prop_int_act) >>,
    << NameLine(Shutter1), CommandLine(w_set_open, cmdQ),
       PositionLine(ushwords.prop_int_act) >> }

DeviceFrames ==
  { InboundFrame(Stage1, cmdS, <<num0, <<"5">>>>),
    InboundFrame(Stage1, cmdS, <<num0, <<"1","2">>>>),
    InboundFrame(Stage1, cmdQ, <<num0, <<"7">>>>),
    InboundFrame(Stage1, cmdH, <<num0>>),
    InboundFrame(Stage1, cmdH, <<num0, <<"5">>>>),
    InboundFrame(Stage1, cmdH, <<num0, <<"1","2">>>>),
    InboundFrame(Shutter1, cmdO, <<num0, <<"1">>>>),
    InboundFrame(Shutter1, cmdQ, <<num0, <<"7">>>>),
    InboundFrame(Stage1, w_timeout, <<num0, <<"5">>>>),
    InboundFrame(Shutter1, w_timeout, <<num0, <<"5">>>>),
    InboundFrame(Stage1, cmdS, << <<"x">> >>),
    Stage1 \o <<sepIn>> \o cmdS \o <<sepIn>> }

InitDevices ==
  /\ \E g \in DeviceGroups :
       deviceDescriptionList = << VectorstrToDeviceDescription(g, FALSE).dd >>
  /\ dev = [i \in 1..Len(deviceDescriptionList) |->
              InitialDevice(deviceDescriptionList[i])]
  /\ error_ = 0
  /\ errorDescription = DescriptionNone
  /\ now = 0
  /\ tx = <<>>
  /\ rx = <<>>
  /\ executeLock_ = "free"
  /\ inflight = {}
  /\ pcPoll = "loop"
  /\ listOfBusyDevices = <<>>
  /\ lastPortCheck = 0
  /\ pcFg = "idle"
  /\ fgCall = NoCall
  /\ lastEvent = NoEvent
  /\ initialized_ = TRUE
  /\ stopbusythread_ = FALSE
  /\ thr_ = 1

\* UshStage::Home up to the point where the command is handed to the port
Home(i) ==
  /\ pcFg = "idle"
  /\ tx = <<>>
  /\ GetType(deviceDescriptionList, i) = "StageDevice"
  /\ LET cmd == ConvertMethodToCommand(Hub, deviceDescriptionList[i].name, ushwords.home)
     IN IF Unsupported(cmd) # DEVICE_OK
        THEN /\ fgCall' = [NoCall EXCEPT !.op = "Home", !.dev = i,
                                         !.ret = Unsupported(cmd)]
             /\ UNCHANGED <<deviceDescriptionList, dev, error_, errorDescription,
                            executeLock_, inflight, pcFg>>
        ELSE /\ Commit(SetLastCommandTime(Hub, i, now))
             /\ EnterSerialCommunication("fg")
             /\ pcFg' = "send"
             /\ fgCall' = [NoCall EXCEPT
                             !.op = "Home", !.dev = i,
                             !.cmd = OutputCommand(deviceDescriptionList[i].name, cmd,
                                                   <<to_string(0)>>)]
  /\ UNCHANGED <<now, tx, pcPoll, listOfBusyDevices, lastPortCheck, lastEvent>>
  /\ UNCHANGED lifecycle
  /\ UNCHANGED rx

\* UshStage::SetPositionUm: with the updating flag set the call is the
\* update of a report; otherwise up to the point where the command is
\* handed to the port
SetPositionUm(i, pos) ==
  /\ pcFg = "idle"
  /\ tx = <<>>
  /\ GetType(deviceDescriptionList, i) = "StageDevice"
  /\ LET cmd == ConvertMethodToCommand(Hub, deviceDescriptionList[i].name,
                                       ushwords.set_position_um)
         r == SetPositionUpdating(Hub, i, pos)
     IN IF dev[i].updating
        THEN /\ Commit(r.h)
             /\ fgCall' = [NoCall EXCEPT !.op = "SetPositionUm", !.dev = i,
                                         !.pos = pos, !.ret = r.ret]
             /\ UNCHANGED <<executeLock_, inflight, pcFg>>
        ELSE IF Unsupported(cmd) # DEVICE_OK
        THEN /\ fgCall' = [NoCall EXCEPT !.op = "SetPositionUm", !.dev = i,
                                         !.pos = pos, !.ret = Unsupported(cmd)]
             /\ UNCHANGED <<deviceDescriptionList, dev, error_, errorDescription,
                            executeLock_, inflight, pcFg>>
        ELSE /\ Commit(SetLastCommandTime(Hub, i, now))
             /\ EnterSerialCommunication("fg")
             /\ pcFg' = "send"
             /\ fgCall' = [NoCall EXCEPT
                             !.op = "SetPositionUm", !.dev = i, !.pos = pos,
                             !.cmd = OutputCommand(deviceDescriptionList[i].name, cmd,
                                                   <<to_string(pos)>>)]
  /\ UNCHANGED <<now, tx, pcPoll, listOfBusyDevices, lastPortCheck, lastEvent>>
  /\ UNCHANGED lifecycle
  /\ UNCHANGED rx

NextDevices ==
  \/ ControllerReads
  \/ \E i \in 1..Len(deviceDescriptionList), open \in BOOLEAN : SetOpen(i, open)
  \/ \E i \in 1..Len(deviceDescriptionList) : Home(i)
  \/ \E i \in 1..Len(deviceDescriptionList) : SetPositionUm(i, 5)
  \/ \E ok \in BOOLEAN : SendReturns(ok)
  \/ PollCycle
  \/ \E got \in GetSerialAnswer(DeviceFrames) : PollReceive(got)

SpecDevices == InitDevices /\ [][NextDevices]_vars

(***************************************************************************)
(* One command and its acknowledgement: the foreground call statement by   *)
(* statement, a controller that answers what it reads, and the poll loop   *)
(***************************************************************************)

\* MakeAndSendOutputCommand returns: the line is on the port, or the write
\* failed; "open_ = open; SetBusy(true);" are still to come
SendWrites(ok) ==
  /\ pcFg = "send"
  /\ tx' = IF ok THEN SendSerialCommand(tx, fgCall.cmd) ELSE tx
  /\ LeaveSerialCommunication("fg")
  /\ pcFg' = "sent"
  /\ fgCall' = [fgCall EXCEPT !.ret = IF ok THEN DEVICE_OK
                                      ELSE DEVICE_SERIAL_COMMAND_FAILED]
  /\ UNCHANGED <<deviceDescriptionList, dev, error_, errorDescription, now,
                 pcPoll, listOfBusyDevices, lastPortCheck, lastEvent>>
  /\ UNCHANGED lifecycle
  /\ UNCHANGED rx

\* "open_ = open; SetBusy(true); return ret;"
SetBusyAfterSend ==
  /\ pcFg = "sent"
  /\ Commit(SetBusy(StoreAfterSend(Hub, fgCall), fgCall.dev, TRUE))
  /\ pcFg' = "idle"
  /\ fgCall' = [NoCall EXCEPT !.op = fgCall.op, !.dev = fgCall.dev,
                              !.ret = fgCall.ret]
  /\ UNCHANGED <<now, tx, executeLock_, inflight, pcPoll, listOfBusyDevices,
                 lastPortCheck, lastEvent>>
  /\ UNCHANGED lifecycle
  /\ UNCHANGED rx

\* the acknowledgement of a command line: device, command and the code 0
AckFor(cmd) ==
  LET words == SplitStringIntoWords(cmd, sepOut)
  IN InboundFrame(words[1], words[2], <<num0>>)

\* the controller takes a line the hub wrote and acknowledges it
ControllerAnswers ==
  /\ tx # <<>>
  /\ tx' = Tail(tx)
  /\ rx' = Append(rx, AckFor(Head(tx)))
  /\ UNCHANGED <<deviceDescriptionList, dev, error_, errorDescription, now,
                 executeLock_, inflight, pcPoll, listOfBusyDevices,
                 lastPortCheck, pcFg, fgCall, lastEvent>>
  /\ UNCHANGED lifecycle

\* what the port has for the hub to read: the oldest line of the controller
PortInput == IF rx = <<>> THEN {} ELSE {Head(rx)}

\* one command of the foreground, and no other after it
NextAck ==
  \/ \E i \in 1..Len(deviceDescriptionList), open \in BOOLEAN :
       fgCall.op = "none" /\ SetOpen(i, open)
  \/ \E ok \in BOOLEAN : SendWrites(ok)
  \/ SetBusyAfterSend
  \/ ControllerAnswers
  \/ PollCycle
  \/ \E got \in GetSerialAnswer(PortInput) : PollReceive(got)

SpecAck == Init /\ [][NextAck]_vars

(***************************************************************************)
(* One command that the controller acknowledges or refuses                 *)
(***************************************************************************)

\* the error frame for a command line: device, command and a firmware error
\* code
RefusalFor(cmd) ==
  LET words == SplitStringIntoWords(cmd, sepOut)
  IN InboundFrame(words[1], words[2], <<numErr>>)

\* the controller takes a line the hub wrote and answers with an error frame
ControllerRefuses ==
  /\ tx # <<>>
  /\ tx' = Tail(tx)
  /\ rx' = Append(rx, RefusalFor(Head(tx)))
  /\ UNCHANGED <<deviceDescriptionList, dev, error_, errorDescription, now,
                 executeLock_, inflight, pcPoll, listOfBusyDevices,
                 lastPortCheck, pcFg, fgCall, lastEvent>>
  /\ UNCHANGED lifecycle

NextRefusal == NextAck \/ ControllerRefuses

SpecRefusal == Init /\ [][NextRefusal]_vars

(***************************************************************************)
(* Timeouts under traffic: commands sent at time 0, a poll loop that goes   *)
(* on past the time the model follows, and frames of the state device      *)
(***************************************************************************)

\* a cycle later than MaxTime: every command was sent at time 0 and is past
\* its timeout by then, so the clock may stay where it is
PollCycleLate == now + SleepTime > MaxTime /\ PollCycleAt(now)

\* acknowledgements of the state device, asked for or not
TrafficFrames == { InboundFrame(State1, cmdM, <<to_string(ctr_ok)>>) }

NextTraffic ==
  \/ ControllerReads
  \/ \E i \in 1..Len(deviceDescriptionList), open \in BOOLEAN :
       now = 0 /\ SetOpen(i, open)
  \/ \E i \in 1..Len(deviceDescriptionList) :
       \E ii \in 1..Len(deviceDescriptionList[i].properties) :
         \E value \in SettableValues(deviceDescriptionList[i].properties[ii]) :
           now = 0 /\ OnAction(i, ii, value)
  \/ \E ok \in BOOLEAN : SendReturns(ok)
  \/ PollCycle
  \/ PollCycleLate
  \/ \E got \in GetSerialAnswer(TrafficFrames) : PollReceive(got)

SpecTraffic == Init /\ [][NextTraffic]_vars

\* ReceiveAnswer returns, with a line or without
ReceiveAnswerReturns == pcPoll = "receive" /\ pcPoll' \in {"loop", "terminated"}

\* the poll task is a thread that keeps running, ReceiveAnswer returns when
\* the answer timeout of the port has passed at the latest, and the write of
\* a foreground call returns
SpecTrafficFair ==
  /\ SpecTraffic
  /\ WF_pcPoll(PollCycle \/ PollCycleLate)
  /\ WF_pcPoll(ReceiveAnswerReturns)
  /\ WF_pcFg(\E ok \in BOOLEAN : SendReturns(ok))

(***************************************************************************)
(* The codec by itself: fields joined as MakeAndSendOutputCommand joins the *)
(* values of a frame, and the line split again by SplitStringIntoWords      *)
(***************************************************************************)
MaxFields == 3

\* the fields: empty, of one and of two characters, and one that holds the
\* separator of values
CodecWords == { <<>>, <<"a">>, <<"b","c">>, <<"a", sepWithin>> }

CodecFields == UNION { [1..n -> CodecWords] : n \in 0..MaxFields }

InitCodec ==
  /\ deviceDescriptionList = <<>>
  /\ dev = <<>>
  /\ error_ = 0
  /\ errorDescription = DescriptionNone
  /\ now = 0
  /\ tx = <<>>
  /\ rx = <<>>
  /\ executeLock_ = "free"
  /\ inflight = {}
  /\ pcPoll = "not-started"
  /\ listOfBusyDevices = <<>>
  /\ lastPortCheck = 0
  /\ pcFg = "join"
  /\ \E fields \in CodecFields, sep \in {sepWithin, sepIn, sepSetup} :
       fgCall = [op |-> "codec", sep |-> sep, fields |-> fields,
                 line |-> <<>>, words |-> <<>>]
  /\ lastEvent = NoEvent
  /\ initialized_ = FALSE
  /\ stopbusythread_ = FALSE
  /\ thr_ = 0

\* the values of a frame joined: "for (int ii=0; ii<values.size()-1; ii++)"
\* and "values.at(values.size()-1)", which throws when there is no value
CodecJoin ==
  /\ pcFg = "join"
  /\ IF Len(fgCall.fields) = 0
     THEN pcFg' = "thrown" /\ UNCHANGED fgCall
     ELSE /\ pcFg' = "split"
          /\ fgCall' = [fgCall EXCEPT !.line = JoinWords(fgCall.fields, fgCall.sep)]
  /\ UNCHANGED <<deviceDescriptionList, dev, error_, errorDescription, now, tx,
                 executeLock_, inflight, pcPoll, listOfBusyDevices,
                 lastPortCheck, lastEvent>>
  /\ UNCHANGED lifecycle
  /\ UNCHANGED rx

CodecSplit ==
  /\ pcFg = "split"
  /\ pcFg' = "done"
  /\ fgCall' = [fgCall EXCEPT !.words = SplitStringIntoWords(fgCall.line, fgCall.sep)]
  /\ UNCHANGED <<deviceDescriptionList, dev, error_, errorDescription, now, tx,
                 executeLock_, inflight, pcPoll, listOfBusyDevices,
                 lastPortCheck, lastEvent>>
  /\ UNCHANGED lifecycle
  /\ UNCHANGED rx

NextCodec == CodecJoin \/ CodecSplit

SpecCodec == InitCodec /\ [][NextCodec]_vars

(***************************************************************************)
(* The life of the hub: UniHub::Initialize, UniHub::Shutdown, and the poll *)
(* task that Initialize activates and Shutdown waits for                   *)
(***************************************************************************)

\* Sleep(1000) of Initialize: "give serial port time to initialize"
InitializeSleep == 1000000

\* the setup stream of the controller in this part, and its frames
HubStream ==
  << NameLine(Shutter1), CommandLine(w_set_open, cmdO), ushwords.device_list_end >>

\* the line the controller answers the next read of discovery with
HubLines ==
  IF pcFg = "receive"
  THEN { HubStream[Len(SelectSeq(fgCall.io, LAMBDA e : e.op = "read")) + 1] }
  ELSE {}

HubFrames ==
  { InboundFrame(Shutter1, cmdO, <<num0>>),
    InboundFrame(Ghost, cmdX, <<num0>>) }

\* the hub as its constructor leaves it
InitHub ==
  /\ deviceDescriptionList = <<>>
  /\ dev = <<>>
  /\ error_ = 0
  /\ errorDescription = DescriptionNone
  /\ now = 0
  /\ tx = <<>>
  /\ rx = <<>>
  /\ executeLock_ = "free"
  /\ inflight = {}
  /\ pcPoll = "not-started"
  /\ listOfBusyDevices = <<>>
  /\ lastPortCheck = 0
  /\ pcFg = "idle"
  /\ fgCall = NoCall
  /\ lastEvent = NoEvent
  /\ initialized_ = FALSE
  /\ stopbusythread_ = FALSE
  /\ thr_ = 0

\* an Initialize that never takes the hub for initialized
AlreadyInitialized_Never(inited) == FALSE

\* "if (initialized_) return DEVICE_OK;"
AlreadyInitialized(inited) == inited

\* Initialize up to the first SendCommand of PopulateDeviceDescriptionList,
\* or its immediate return
Initialize ==
  /\ pcFg = "idle"
  /\ IF AlreadyInitialized(initialized_)
     THEN /\ fgCall' = [NoCall EXCEPT !.op = "Initialize"]
          /\ UNCHANGED <<now, pcFg>>
     ELSE /\ now < MaxTime
          /\ now' = now + InitializeSleep
          /\ pcFg' = "list-start"
          /\ fgCall' = Discovery
  /\ UNCHANGED <<deviceDescriptionList, dev, error_, errorDescription, tx,
                 executeLock_, inflight, pcPoll, listOfBusyDevices,
                 lastPortCheck, lastEvent>>
  /\ UNCHANGED lifecycle
  /\ UNCHANGED rx

\* PopulateDeviceDescriptionList has returned: Initialize returns its error,
\* or the devices are made, the poll task is activated and the hub is
\* initialized
InitializeEnds ==
  /\ pcFg = "returned"
  /\ pcFg' = "idle"
  /\ fgCall' = [NoCall EXCEPT !.op = "Initialize", !.ret = fgCall.ret]
  /\ IF fgCall.ret # DEVICE_OK
     THEN UNCHANGED <<dev, pcPoll, lastPortCheck, initialized_, thr_>>
     ELSE /\ dev' = [i \in 1..Len(deviceDescriptionList) |->
                       InitialDevice(deviceDescriptionList[i])]
          /\ thr_' = thr_ + 1
          /\ pcPoll' = "loop"
          /\ lastPortCheck' = now
          /\ initialized_' = TRUE
  /\ UNCHANGED <<deviceDescriptionList, error_, errorDescription, now, tx, rx,
                 executeLock_, inflight, listOfBusyDevices, lastEvent,
                 stopbusythread_>>

\* the while condition is false: "return DEVICE_OK;" of BusyThread::svc
PollReturns ==
  /\ pcPoll = "loop"
  /\ ~LoopCondition(stopbusythread_)
  /\ pcPoll' = "returned"
  /\ UNCHANGED <<deviceDescriptionList, dev, error_, errorDescription, now, tx,
                 executeLock_, inflight, listOfBusyDevices, lastPortCheck,
                 pcFg, fgCall, lastEvent>>
  /\ UNCHANGED lifecycle
  /\ UNCHANGED rx

\* Shutdown up to "thr_->wait()"; on a hub that is not initialized, the whole
\* of it.  The device objects are reached through the registry, so that they
\* go with it.
Shutdown ==
  /\ pcFg = "idle"
  /\ fgCall' = [NoCall EXCEPT !.op = "Shutdown"]
  /\ IF initialized_
     THEN /\ stopbusythread_' = TRUE
          /\ pcFg' = "wait"
          /\ UNCHANGED <<deviceDescriptionList, dev>>
     ELSE /\ deviceDescriptionList' = <<>>
          /\ dev' = <<>>
          /\ UNCHANGED <<stopbusythread_, pcFg>>
  /\ UNCHANGED <<error_, errorDescription, now, tx, rx, executeLock_, inflight,
                 pcPoll, listOfBusyDevices, lastPortCheck, lastEvent,
                 initialized_, thr_>>

\* a wait that returns while the poll task is still in its loop
WaitReturns_AtOnce(t, pc) == TRUE

\* "if (thr_!=0) thr_->wait();": wait() returns when svc of the poll task
\* has returned
WaitReturns(t, pc) == t # 0 => pc = "returned"

\* "thr_->wait()" returns when the poll task has returned; then the rest of
\* Shutdown
ShutdownEnds ==
  /\ pcFg = "wait"
  /\ WaitReturns(thr_, pcPoll)
  /\ initialized_' = FALSE
  /\ deviceDescriptionList' = <<>>
  /\ dev' = <<>>
  /\ pcFg' = "idle"
  /\ UNCHANGED <<error_, errorDescription, now, tx, rx, executeLock_, inflight,
                 pcPoll, listOfBusyDevices, lastPortCheck, fgCall, lastEvent,
                 stopbusythread_, thr_>>

\* the device object of description i is loaded in an initialized hub
Loaded(i) ==
  initialized_ /\ GetDevice(deviceDescriptionList, deviceDescriptionList[i].name) = i

NextHub ==
  \/ Initialize
  \/ \E ok \in BOOLEAN : DiscoverStart(ok)
  \/ \E got \in GetSerialAnswer(HubLines) : DiscoverReceive(got)
  \/ \E ok \in BOOLEAN : DiscoverContinue(ok)
  \/ InitializeEnds
  \/ Shutdown
  \/ ShutdownEnds
  \/ ControllerReads
  \/ \E i \in 1..Len(deviceDescriptionList), open \in BOOLEAN :
       Loaded(i) /\ SetOpen(i, open)
  \/ \E ok \in BOOLEAN : SendReturns(ok)
  \/ PollCycle
  \/ \E got \in GetSerialAnswer(HubFrames) : PollReceive(got)
  \/ PollReturns

SpecHub == InitHub /\ [][NextHub]_vars

\* the poll task is a thread that keeps running, GetSerialAnswer returns when
\* the answer timeout of the port has passed at the latest, and wait()
\* returns when the task has ended
SpecHubFair ==
  /\ SpecHub
  /\ WF_pcPoll(PollReturns)
  /\ WF_pcPoll(\E got \in GetSerialAnswer(HubFrames) : PollReceive(got))
  /\ WF_pcFg(ShutdownEnds)

(***************************************************************************)
(* Properties                                                              *)
(***************************************************************************)

\* a step in which ReceiveAnswer returns and the cycle ends
PollStep == pcPoll = "receive" /\ pcPoll' # "receive"

\* the step in which ReceiveAnswer returned a line
Received == PollStep /\ lastEvent'.got.ret = DEVICE_OK

\* the step in which ReceiveAnswer failed
NothingReceived == PollStep /\ lastEvent'.got.ret # DEVICE_OK

\* the line the step's ReceiveAnswer returned
Line == lastEvent'.got.ans

\* a frame as its reader sees it
FrameFields(ans) == SplitStringIntoWords(ans, sepIn)

KnownDevice(name) ==
  \E i \in DOMAIN deviceDescriptionList : deviceDescriptionList[i].name = name

DeviceOf(name) ==
  CHOOSE i \in DOMAIN deviceDescriptionList : deviceDescriptionList[i].name = name

WellFormed(ans) ==
  Len(FrameFields(ans)) = 3 /\ KnownDevice(FrameFields(ans)[1])

FrameDevice(ans) == DeviceOf(FrameFields(ans)[1])

FrameCommand(ans) == FrameFields(ans)[2]

FrameCode(ans) == atoi(SplitStringIntoWords(FrameFields(ans)[3], sepWithin)[1])

FrameValues(ans) == Tail(SplitStringIntoWords(FrameFields(ans)[3], sepWithin))

\* the frame reaches ReportToDevice: well formed, code 0 or BUSY, with values
Reported(ans) ==
  /\ WellFormed(ans)
  /\ FrameCode(ans) \in {ctr_ok, ctr_busy}
  /\ FrameValues(ans) # <<>>

\* the properties of device i whose cmdAction is the command
PropertiesFor(i, command) ==
  {ii \in DOMAIN deviceDescriptionList[i].properties :
     deviceDescriptionList[i].properties[ii].cmdAction = command}

\* the methods of device i whose command is the command
MethodsFor(i, command) ==
  {mi \in DOMAIN deviceDescriptionList[i].methods :
     deviceDescriptionList[i].methods[mi].command = command}

\* the frame reaches the property scan of ReportToDevice and matches there
ReportedToProperty(ans) ==
  /\ Reported(ans)
  /\ FrameCommand(ans) # w_timeout
  /\ MethodsFor(FrameDevice(ans), FrameCommand(ans)) = {}
  /\ PropertiesFor(FrameDevice(ans), FrameCommand(ans)) # {}

\* the index of the property such a frame is about: the first that matches
FramePropertyIndex(ans) ==
  CHOOSE ii \in PropertiesFor(FrameDevice(ans), FrameCommand(ans)) :
    \A jj \in PropertiesFor(FrameDevice(ans), FrameCommand(ans)) : ii <= jj

FrameProperty(ans) ==
  deviceDescriptionList[FrameDevice(ans)].properties[FramePropertyIndex(ans)]

FramePropertyAfter(ans) ==
  deviceDescriptionList'[FrameDevice(ans)].properties[FramePropertyIndex(ans)]

\* the value is not one the property may take
ValueNotAllowed(pd, word) ==
  \/ /\ pd.type = "String"
     /\ word \notin {pd.allowedValues[k] : k \in DOMAIN pd.allowedValues}
  \/ /\ pd.type = "Integer"
     /\ (atoi(word) < pd.lowerLimitInteger \/ atoi(word) > pd.upperLimitInteger)
  \/ /\ pd.type = "Float"
     /\ (atof(word) < pd.lowerLimitFloat \/ atof(word) > pd.upperLimitFloat)

\* the elapsed time the timeout check of a cycle compares
Elapsed(i) == now - dev[i].lastCommandTime

\* C1 (as the claim states it): at most one send or receive issued through
\* SerialCommunication is in flight in every reachable state.  The guard of
\* SerialCommunication is a temporary, so the foreground's send and the poll
\* loop's receive do overlap and this invariant is violated.
C1_TransportExclusive == Cardinality(inflight) <= 1

\* a foreground send and the poll loop's receive in flight together
C1_Overlap == inflight = {"fg", "poll"}

\* C2: a busy flag that is true becomes false only in the step in which the
\* poll loop ends a read for that same instrument: the read failed and the
\* instrument has timed out, or the read returned a well-formed frame naming
\* the instrument whose error code is not BUSY (an acknowledgement or an
\* error frame).  No step of the foreground clears it.
C2_BusyMonotonic ==
  [][\A i \in DOMAIN dev :
       (dev[i].busy /\ ~dev'[i].busy) =>
         \/ /\ NothingReceived
            /\ Elapsed(i) > dev[i].timeout
            /\ error_' = adp_lost_communication
         \/ /\ Received
            /\ WellFormed(Line)
            /\ FrameDevice(Line) = i
            /\ FrameCode(Line) # ctr_busy]_vars

\* the shutter's flag was cleared by a timeout while the state device, busy
\* too, keeps its flag
C2_Witness ==
  /\ lastEvent.kind = "timeout"
  /\ lastEvent.dev = 1
  /\ ~dev[1].busy
  /\ dev[2].busy

\* C3 (as the claim states it): in a cycle whose read returned nothing, the
\* first listed busy instrument with now >= t0 + T, the deadline itself
\* included, is set not busy and LostCommunication is recorded.
C3_AtOrAfterDeadline ==
  [][NothingReceived =>
       \A k \in DOMAIN listOfBusyDevices :
         ( /\ Elapsed(listOfBusyDevices[k]) >= dev[listOfBusyDevices[k]].timeout
           /\ \A j \in 1..(k - 1) :
                Elapsed(listOfBusyDevices[j]) < dev[listOfBusyDevices[j]].timeout )
         => /\ ~dev'[listOfBusyDevices[k]].busy
            /\ error_' = adp_lost_communication]_vars

\* C3 (amended): in a cycle whose read returned nothing, the first listed
\* busy instrument with now > t0 + T is set not busy and LostCommunication
\* is recorded with its name; every other listed instrument, one with
\* now = t0 + T exactly included, keeps its busy flag in that cycle.
C3_AfterDeadline ==
  [][NothingReceived =>
       \A k \in DOMAIN listOfBusyDevices :
         IF /\ Elapsed(listOfBusyDevices[k]) > dev[listOfBusyDevices[k]].timeout
            /\ \A j \in 1..(k - 1) :
                 Elapsed(listOfBusyDevices[j]) <= dev[listOfBusyDevices[j]].timeout
         THEN /\ ~dev'[listOfBusyDevices[k]].busy
              /\ error_' = adp_lost_communication
              /\ errorDescription'.addon =
                   deviceDescriptionList[listOfBusyDevices[k]].name
         ELSE dev'[listOfBusyDevices[k]].busy = dev[listOfBusyDevices[k]].busy]_vars

\* a cycle ran at the deadline of the busy shutter exactly and left it busy
C3_Witness ==
  /\ lastEvent.kind = "noactivity"
  /\ dev[1].busy
  /\ Elapsed(1) = dev[1].timeout
  /\ listOfBusyDevices = <<1>>

\* C4: a well-formed frame for a known instrument D with code 0 leaves D
\* not busy; with code BUSY it leaves D busy with the last command time set
\* to the current time; with any other code it leaves D not busy, the code
\* is the last error and the description carries the raw frame.
C4_ErrorCodeHandling ==
  [][(Received /\ WellFormed(Line)) =>
       LET D == FrameDevice(Line)
           code == FrameCode(Line)
       IN /\ code = ctr_ok => ~dev'[D].busy
          /\ code = ctr_busy =>
               dev'[D].busy /\ dev'[D].lastCommandTime = now
          /\ code \notin {ctr_ok, ctr_busy} =>
               /\ ~dev'[D].busy
               /\ error_' = code
               /\ errorDescription'.addon = Line
               /\ errorDescription'.code = code]_vars

\* a BUSY frame has refreshed the last command time of the shutter, which a
\* command had made busy earlier
C4_Witness ==
  /\ lastEvent.kind = "frame"
  /\ lastEvent.err = ctr_busy
  /\ lastEvent.dev = 1
  /\ dev[1].busy
  /\ dev[1].lastCommandTime = now
  /\ dev[1].open_
  /\ now > SleepTime

\* C5 (as the claim states it): the values of every well-formed frame of a
\* known instrument are forwarded to ReportToDevice whenever they are not
\* empty, whatever the error code.
C5_ForwardedWhateverCode ==
  [][(Received /\ WellFormed(Line) /\ FrameValues(Line) # <<>>)
       => lastEvent'.forwarded]_vars

\* C5 (amended): the non-empty values of a well-formed frame of a known
\* instrument are forwarded to ReportToDevice exactly when the error code is
\* 0 or BUSY; with any other code nothing is forwarded and no description,
\* timeout, last command time or cached shutter state changes.
C5_ForwardedOnOkOrBusy ==
  [][(Received /\ WellFormed(Line) /\ FrameValues(Line) # <<>>)
       => /\ lastEvent'.forwarded <=> FrameCode(Line) \in {ctr_ok, ctr_busy}
          /\ FrameCode(Line) \notin {ctr_ok, ctr_busy} =>
               /\ deviceDescriptionList' = deviceDescriptionList
               /\ \A i \in DOMAIN dev :
                    /\ dev'[i].open_ = dev[i].open_
                    /\ dev'[i].timeout = dev[i].timeout
                    /\ dev'[i].lastCommandTime = dev[i].lastCommandTime]_vars

\* an error frame that carried a value was handled and the value went nowhere
C5_Witness ==
  /\ lastEvent.kind = "frame"
  /\ lastEvent.err = ctr_device_timeout
  /\ FrameValues(lastEvent.got.ans) # <<>>
  /\ ~lastEvent.forwarded
  /\ error_ = ctr_device_timeout

\* C6: a frame that does not split into exactly 3 fields is discarded with
\* StringNotRecognized, a 3-field frame naming an unknown instrument with
\* DeviceNotRecognized; the registry and every instrument's busy flag,
\* timeout and last command time (the device objects) stay as they were and
\* the last error carries the raw frame.
C6_RejectedFrames ==
  [][(Received /\ ~WellFormed(Line)) =>
       /\ error_' = IF Len(FrameFields(Line)) # 3
                    THEN adp_string_not_recognized
                    ELSE adp_device_not_recognized
       /\ errorDescription'.addon = Line
       /\ deviceDescriptionList' = deviceDescriptionList
       /\ dev' = dev]_vars

\* a frame for an unknown instrument was rejected while an instrument was busy
C6_Witness ==
  /\ lastEvent.kind = "reject"
  /\ error_ = adp_device_not_recognized
  /\ dev[1].busy
  /\ dev[1].lastCommandTime < now

\* C7: when a frame reaches the property scan of ReportToDevice with a
\* value that is not among the allowed values (String) or outside the limits
\* (Integer, Float) of the property its command matches, ReportToDevice
\* returns ValueNotAllowed, which becomes the last error, and every cached
\* value of the registry is as before.
C7_RejectedBeforeMutation ==
  [][( /\ Received
       /\ ReportedToProperty(Line)
       /\ ValueNotAllowed(FrameProperty(Line), FrameValues(Line)[1]) )
     => /\ lastEvent'.ret = adp_device_command_value_not_allowed
        /\ error_' = adp_device_command_value_not_allowed
        /\ deviceDescriptionList' = deviceDescriptionList]_vars

\* a value outside the allowed values of the state device's property was
\* refused
C7_Witness ==
  /\ lastEvent.forwarded
  /\ lastEvent.dev = 2
  /\ lastEvent.ret = adp_device_command_value_not_allowed
  /\ error_ = adp_device_command_value_not_allowed

\* C8: for an Integer action property with limits [lower, upper], a reported
\* value equal to lower or to upper is accepted and becomes the cached
\* value; lower - 1 and upper + 1 are refused with ValueNotAllowed and the
\* cached value stays.
C8_ValidationBoundary ==
  [][( /\ Received
       /\ ReportedToProperty(Line)
       /\ FrameProperty(Line).type = "Integer" )
     => LET pd == FrameProperty(Line)
            value == atoi(FrameValues(Line)[1])
        IN /\ value \in {pd.lowerLimitInteger, pd.upperLimitInteger} =>
                /\ FramePropertyAfter(Line).valueInteger = value
                /\ lastEvent'.ret = DEVICE_OK
           /\ value \in {pd.lowerLimitInteger - 1, pd.upperLimitInteger + 1} =>
                /\ FramePropertyAfter(Line).valueInteger = pd.valueInteger
                /\ lastEvent'.ret = adp_device_command_value_not_allowed
                /\ error_' = adp_device_command_value_not_allowed]_vars

\* the upper limit itself was reported and is now the cached value
C8_Witness ==
  /\ lastEvent.forwarded
  /\ lastEvent.dev = 1
  /\ lastEvent.ret = DEVICE_OK
  /\ FrameCommand(lastEvent.got.ans) = cmdP
  /\ deviceDescriptionList[1].properties[1].valueInteger =
       deviceDescriptionList[1].properties[1].upperLimitInteger

\* C9: when the command that reaches ReportToDevice is not the timeout
\* pseudo-command and is the command of no method and of no property of the
\* instrument, ReportToDevice returns CommandNotRecognized, which becomes the
\* last error, and no cached value changes.
C9_UnrecognizedCommand ==
  [][( /\ Received
       /\ Reported(Line)
       /\ FrameCommand(Line) # w_timeout
       /\ MethodsFor(FrameDevice(Line), FrameCommand(Line)) = {}
       /\ PropertiesFor(FrameDevice(Line), FrameCommand(Line)) = {} )
     => /\ lastEvent'.ret = adp_device_command_not_recognized
        /\ error_' = adp_device_command_not_recognized
        /\ errorDescription'.code = adp_device_command_not_recognized
        /\ deviceDescriptionList' = deviceDescriptionList
        /\ \A i \in DOMAIN dev : dev'[i].open_ = dev[i].open_]_vars

\* an unknown command was reported for the state device
C9_Witness ==
  /\ lastEvent.forwarded
  /\ lastEvent.dev = 2
  /\ lastEvent.ret = adp_device_command_not_recognized
  /\ error_ = adp_device_command_not_recognized

\* C10: the lines on the transport change only when the controller takes
\* one or when a foreground invocation ends its single write, which adds
\* exactly the one frame of that invocation; no step of the poll loop, a
\* timeout or an error frame included, writes a line or starts or continues
\* a foreground invocation.
C10_NoRetry ==
  [][/\ tx' # tx =>
          \/ tx # <<>> /\ tx' = Tail(tx) /\ pcFg' = pcFg
          \/ /\ pcFg = "send"
             /\ pcFg' = "idle"
             /\ tx' = Append(tx, fgCall.cmd)
     /\ pcPoll' # pcPoll => (tx' = tx /\ pcFg' = pcFg /\ fgCall' = fgCall)]_vars

\* the shutter's command went out once, was taken by the controller and then
\* timed out: nothing is on the transport and no call is in progress
C10_Witness ==
  /\ lastEvent.kind = "timeout"
  /\ lastEvent.dev = 1
  /\ tx = <<>>
  /\ pcFg = "idle"
  /\ dev[1].open_

(***************************************************************************)
(* Properties of discovery                                                 *)
(***************************************************************************)

\* discovery has returned, or an exception has ended it
DiscoveryEnded == pcFg \in {"returned", "threw"}

\* the stream was terminated by list-end: that is the last line read
EndedByListEnd ==
  DiscoveryEnded /\ fgCall.ret = DEVICE_OK /\ fgCall.ans = ushwords.device_list_end

IsNameLine(s) == SplitStringIntoWords(s, sepSetup)[1] = g_Keyword.Name

NameLinesRead == Len(SelectSeq(SetupLinesRead, LAMBDA e : IsNameLine(e.line)))

ValidOrReason(d) == d.isValid \/ Len(d.reasonWhyInvalid) > 0

\* C11: for any setup-line stream terminated by list-end, a stream with no
\* Name line included, the number of descriptions appended to the registry
\* equals the number of Name lines of the stream, and every description is
\* valid or carries a non-empty reason
C11_BuilderTotality ==
  EndedByListEnd =>
    /\ Len(deviceDescriptionList) = NameLinesRead
    /\ \A i \in 1..Len(deviceDescriptionList) : ValidOrReason(deviceDescriptionList[i])

\* C11: a stream of list-end alone has left a description in the registry
C11_Witness ==
  /\ EndedByListEnd
  /\ Len(SetupLinesRead) = 0
  /\ Len(deviceDescriptionList) = 1

\* the line group a description of the registry was made of
GroupOf(i) == fgCall.groups[i]

LeadingKey(s) == SplitStringIntoWords(s, sepSetup)[1]

FieldCount(s) == Len(SplitStringIntoWords(s, sepSetup))

KnownKey(key) ==
  \/ key \in {g_Keyword.Name, g_Keyword.Description, w_timeout, ushwords.cmd}
  \/ HasPrefix(key, ushwords.prop)

\* line k of group i is reached with the description still valid
ReachedValid(i, k) ==
  LET before == VectorstrToDeviceDescription(SubSeq(GroupOf(i), 1, k - 1), TRUE)
  IN ~before.threw /\ before.dd.isValid

\* the reason of description i names the line s
ReasonNames(i, s) ==
  LET reason == deviceDescriptionList[i].reasonWhyInvalid
  IN Len(reason) = 2 /\ reason[2] = s

\* C12: a setup line with fewer than 2 fields, or whose leading key is none
\* of Name, Description, the timeout key, the command key or a property key,
\* makes the description built from its group invalid, with a reason that
\* names that line
C12_UnknownKeysInvalidate ==
  \A i \in 1..Len(deviceDescriptionList) :
    \A k \in 1..Len(GroupOf(i)) :
      (ReachedValid(i, k)
         /\ (FieldCount(GroupOf(i)[k]) < 2 \/ ~KnownKey(LeadingKey(GroupOf(i)[k]))))
        => /\ ~deviceDescriptionList[i].isValid
           /\ ReasonNames(i, GroupOf(i)[k])

\* C12: a description named Shutter1 is valid although a line of its group
\* has two fields and an unknown leading key
C12_Witness ==
  \E i \in 1..Len(deviceDescriptionList) :
    /\ deviceDescriptionList[i].isValid
    /\ deviceDescriptionList[i].name = Shutter1
    /\ \E k \in 1..Len(GroupOf(i)) :
         FieldCount(GroupOf(i)[k]) >= 2 /\ ~KnownKey(LeadingKey(GroupOf(i)[k]))

\* the fields of an acknowledgement frame that names description i
FrameNaming(i) == <<deviceDescriptionList[i].name, cmdO, num0>>

\* an exception left the conversion of a group when the Name line of the
\* following group had been read: that group and all later ones are lost
FollowingGroupLost ==
  pcFg = "threw" /\ ~LoopEnds(fgCall.ret, fgCall.ans)

\* C13: a validation failure in one line group does not stop discovery of
\* the following groups; an invalid description is in the registry, is not
\* registered as a device, and a frame that names it is rejected with the
\* device-not-recognized error
C13_InvalidKeptNotDispatched ==
  /\ ~FollowingGroupLost
  /\ \A i \in 1..Len(deviceDescriptionList) :
       ~deviceDescriptionList[i].isValid
         => /\ ~Registered(deviceDescriptionList[i])
            /\ CheckIncomingCommand(Hub, FrameNaming(i)) = adp_device_not_recognized

\* C13: the group of Shutter1 held a line whose conversion throws; the
\* exception ended discovery when the next Name line was read
C13_Witness ==
  /\ FollowingGroupLost
  /\ IsNameLine(fgCall.ans)
  /\ Len(fgCall.device_vecstr) > 1
  /\ fgCall.device_vecstr[1] = SetupLine(<<g_Keyword.Name, Shutter1>>)

\* the kind tag a name begins with, <<>> if none
KindOfName(name) ==
  IF HasPrefix(name, kw_Shutter) THEN kw_Shutter
  ELSE IF HasPrefix(name, kw_State) THEN kw_State
  ELSE IF HasPrefix(name, kw_Stage) THEN kw_Stage
  ELSE IF HasPrefix(name, kw_XYStage) THEN kw_XYStage
  ELSE IF HasPrefix(name, kw_Generic) THEN kw_Generic
  ELSE <<>>

\* group i opens with a Name line
Named(i) ==
  Len(GroupOf(i)) > 0 /\ IsNameLine(GroupOf(i)[1]) /\ FieldCount(GroupOf(i)[1]) = 2

NameOf(i) == SplitStringIntoWords(GroupOf(i)[1], sepSetup)[2]

\* C14: a description whose name begins with one of the five kind tags gets
\* that kind, is valid when its group has no other line, and is registered
\* as a device whenever it is valid, Generic included; a name with no kind
\* tag gives an invalid description whose reason is "Unable to determine
\* device type for ..."
C14_KindDerivation ==
  \A i \in 1..Len(deviceDescriptionList) :
    Named(i) =>
      LET d == deviceDescriptionList[i]
      IN IF KindOfName(NameOf(i)) # <<>>
         THEN /\ d.type = KindOfName(NameOf(i))
              /\ Len(GroupOf(i)) = 1 => d.isValid
              /\ d.isValid => Registered(d)
         ELSE /\ ~d.isValid
              /\ Len(d.reasonWhyInvalid) = 2
              /\ d.reasonWhyInvalid[1] = "Unable to determine device type for "

\* C14: the description of Generic1 is valid and is not registered
C14_Witness ==
  \E i \in 1..Len(deviceDescriptionList) :
    /\ Named(i) /\ NameOf(i) = Generic1
    /\ deviceDescriptionList[i].isValid
    /\ ~Registered(deviceDescriptionList[i])
    /\ GetDevice(deviceDescriptionList, Generic1) = NoDevice

\* C15: after discovery no two descriptions of the registry have the same
\* name
C15_NamesUnique ==
  DiscoveryEnded =>
    \A i, j \in 1..Len(deviceDescriptionList) :
      i # j => deviceDescriptionList[i].name # deviceDescriptionList[j].name

\* C15: discovery has returned with two valid descriptions named Shutter1
C15_Witness ==
  /\ pcFg = "returned"
  /\ \E i, j \in 1..Len(deviceDescriptionList) :
       /\ i < j
       /\ deviceDescriptionList[i].name = Shutter1
       /\ deviceDescriptionList[j].name = Shutter1
       /\ deviceDescriptionList[i].isValid /\ deviceDescriptionList[j].isValid
       /\ GetDeviceIndexFromName(deviceDescriptionList, Shutter1) = i

\* the limits of a property that can be set are in order
LimitsInOrder(pd) ==
  /\ (pd.type = "Integer" /\ ~pd.isReadOnly)
       => pd.lowerLimitInteger <= pd.upperLimitInteger
  /\ (pd.type = "Float" /\ ~pd.isReadOnly)
       => pd.lowerLimitFloat <= pd.upperLimitFloat

\* C16: every Integer or Float property that is not read-only, of a valid
\* description of the registry, has its lower limit <= its upper limit
C16_LimitsInOrder ==
  \A i \in 1..Len(deviceDescriptionList) :
    deviceDescriptionList[i].isValid =>
      \A ii \in 1..Len(deviceDescriptionList[i].properties) :
        LimitsInOrder(deviceDescriptionList[i].properties[ii])

\* C16: the valid description Shutter1 has an Integer property with the
\* limits 2 and 1
C16_Witness ==
  \E i \in 1..Len(deviceDescriptionList) :
    /\ deviceDescriptionList[i].isValid
    /\ deviceDescriptionList[i].name = Shutter1
    /\ \E ii \in 1..Len(deviceDescriptionList[i].properties) :
         LET pd == deviceDescriptionList[i].properties[ii]
         IN /\ pd.type = "Integer" /\ ~pd.isReadOnly
            /\ pd.lowerLimitInteger = 2 /\ pd.upperLimitInteger = 1

\* the port operations of discovery, in order
IO == fgCall.io

SentStart(e) == e.op = "send" /\ e.line = ushwords.device_list_start

SentContinue(e) == e.op = "send" /\ e.line = ushwords.device_list_continue

ReadListEnd(e) ==
  e.op = "read" /\ e.ret = DEVICE_OK /\ e.line = ushwords.device_list_end

ReadFailed(e) == e.op = "read" /\ e.ret # DEVICE_OK

\* list-start is the first operation and is sent once
StartSentOnce ==
  \A k \in 1..Len(IO) : SentStart(IO[k]) <=> k = 1

\* a list-continue that was sent is followed by one read, and a read by a
\* list-continue, never by another read
OneReadPerContinue ==
  \A k \in 1..(Len(IO) - 1) :
    /\ (SentContinue(IO[k]) /\ IO[k].ret = DEVICE_OK) => IO[k + 1].op = "read"
    /\ IO[k].op = "read" => SentContinue(IO[k + 1])

\* the handshake is over with the read that returns list-end or fails, and a
\* read fails only when the timeout has elapsed
EndsOnListEndOrFailure ==
  \A k \in 1..Len(IO) :
    (ReadListEnd(IO[k]) \/ ReadFailed(IO[k]))
      => /\ k = Len(IO)
         /\ DiscoveryEnded
         /\ ReadFailed(IO[k]) => now >= ReadTimeout

NoContinueAfterListEnd ==
  \A k, l \in 1..Len(IO) : (k < l /\ ReadListEnd(IO[k])) => ~SentContinue(IO[l])

\* C20 as stated: list-start is sent once, then come rounds of one
\* list-continue send followed by one read, so that every read directly
\* follows a list-continue; the handshake ends as soon as a read returns
\* list-end or fails after the timeout, and no list-continue follows list-end
C20_ContinueBeforeEveryRead ==
  /\ StartSentOnce
  /\ \A k \in 1..Len(IO) : IO[k].op = "read" => (k > 1 /\ SentContinue(IO[k - 1]))
  /\ OneReadPerContinue
  /\ EndsOnListEndOrFailure
  /\ NoContinueAfterListEnd

\* C20, amended: list-start is sent once and one line is read directly after
\* it; then come rounds of one list-continue send followed by one read; the
\* handshake ends as soon as a read returns list-end or fails after the
\* timeout, and no list-continue follows list-end
C20_ReadThenRounds ==
  /\ StartSentOnce
  /\ \A k \in 1..Len(IO) :
       IO[k].op = "read" =>
         /\ k > 1
         /\ IF k = 2 THEN SentStart(IO[1]) ELSE SentContinue(IO[k - 1])
  /\ OneReadPerContinue
  /\ EndsOnListEndOrFailure
  /\ NoContinueAfterListEnd

\* C20: discovery has returned on list-end after two rounds of list-continue
\* and read
C20_Witness ==
  /\ pcFg = "returned"
  /\ EndedByListEnd
  /\ Len(SetupLinesRead) = 2
  /\ Len(SelectSeq(IO, SentContinue)) = 2
  /\ Len(SelectSeq(IO, LAMBDA e : e.op = "read")) = 3

(***************************************************************************)
(* Properties of the devices                                               *)
(***************************************************************************)

\* the step handed the values of its frame to ReportToDevice, which
\* committed them
Accepted == Received /\ lastEvent'.forwarded /\ lastEvent'.ret = DEVICE_OK

\* the frame reports a position to a stage that has a Position property
PositionReported(ans) ==
  /\ Reported(ans)
  /\ GetType(deviceDescriptionList, FrameDevice(ans)) = "StageDevice"
  /\ FrameCommand(ans) # w_timeout
  /\ LET d == deviceDescriptionList[FrameDevice(ans)]
         mi == FindMethodByCommand(d.methods, FrameCommand(ans), 1)
     IN /\ mi # 0
        /\ d.methods[mi].method \in {ushwords.set_position_um, ushwords.get_position_um,
                                     ushwords.home, ushwords.stop}
        /\ HasPositionProperty(d)

PositionPropertyAfter(ans) ==
  LET d == deviceDescriptionList'[FrameDevice(ans)]
  IN d.properties[PositionIndex(d.properties, 1)]

\* the value of a property of that type which the word stands for
ValueOfWord(pd, word) == IF pd.type = "String" THEN word ELSE atoi(word)

\* C17: after a wire update that was committed, a property report or a
\* position report applied by SetPositionUm to the Position property, a read
\* of the property (OnAction with BeforeGet) returns the value just
\* committed, for an Integer property as for a Float property
C17_ReadReturnsCommitted ==
  [][Accepted =>
       /\ ReportedToProperty(Line)
            => BeforeGet(FramePropertyAfter(Line))
                 = ValueOfWord(FrameProperty(Line), FrameValues(Line)[1])
       /\ PositionReported(Line)
            => BeforeGet(PositionPropertyAfter(Line))
                 = ValueOfWord(PositionPropertyAfter(Line), FrameValues(Line)[1])]_vars

\* C17: the position report 5 was accepted by the stage whose Position
\* property is an Integer: the stage is at 5, and the property reads 0
C17_Witness ==
  /\ lastEvent.kind = "frame" /\ lastEvent.forwarded /\ lastEvent.ret = DEVICE_OK
  /\ lastEvent.got.ans = InboundFrame(Stage1, cmdS, <<num0, <<"5">>>>)
  /\ dev[1].position_um_ = 5
  /\ LET pd == deviceDescriptionList[1].properties[1]
     IN /\ pd.name = g_Keyword.Position /\ pd.type = "Integer"
        /\ pd.valueFloat = 5
        /\ BeforeGet(pd) = 0

\* the logical method a foreground call invokes
MethodOfCall(op) == IF op = "SetOpen" THEN w_set_open ELSE ushwords.home

\* the description of device i has no method of that name, or the method's
\* command is the not-supported word
MethodUnsupported(i, op) ==
  LET methods == deviceDescriptionList[i].methods
      mi == FindMethodByName(methods, MethodOfCall(op), 1)
  IN mi = 0 \/ methods[mi].command = w_not_supported

\* the foreground step is the call op of device i
Called(i, op) ==
  pcFg = "idle" /\ fgCall' # fgCall /\ fgCall'.op = op /\ fgCall'.dev = i

\* the call sent nothing and left the device as it was
NothingDone(i) == pcFg' = "idle" /\ tx' = tx /\ dev'[i] = dev[i]

\* C18 as stated: a call of a method for which the description has no method
\* entry, or whose command is the not-supported word, returns
\* DEVICE_UNSUPPORTED_COMMAND, sends nothing and leaves the busy flag, the
\* last command time and the cached value of the device unchanged
C18_UnsupportedMethod ==
  [][\A i \in DOMAIN deviceDescriptionList : \A op \in {"SetOpen", "Home"} :
       (Called(i, op) /\ MethodUnsupported(i, op))
         => /\ fgCall'.ret = DEVICE_UNSUPPORTED_COMMAND
            /\ NothingDone(i)]_vars

\* the description of device i has no method of that name
MethodAbsent(i, op) ==
  FindMethodByName(deviceDescriptionList[i].methods, MethodOfCall(op), 1) = 0

\* C18, amended: such a call returns DEVICE_ERR when the description has no
\* method entry and DEVICE_UNSUPPORTED_COMMAND when the command is the
\* not-supported word; in both cases it sends nothing and leaves the busy
\* flag, the last command time and the cached value of the device unchanged
C18_UnsupportedOrError ==
  [][\A i \in DOMAIN deviceDescriptionList : \A op \in {"SetOpen", "Home"} :
       (Called(i, op) /\ MethodUnsupported(i, op))
         => /\ fgCall'.ret = IF MethodAbsent(i, op) THEN DEVICE_ERR
                             ELSE DEVICE_UNSUPPORTED_COMMAND
            /\ NothingDone(i)]_vars

\* C18: SetOpen of a shutter whose description has no method has returned
\* DEVICE_ERR; nothing was sent and the shutter is not busy
C18_Witness ==
  /\ fgCall.op = "SetOpen"
  /\ deviceDescriptionList[fgCall.dev].methods = <<>>
  /\ fgCall.ret = DEVICE_ERR
  /\ pcFg = "idle" /\ tx = <<>>
  /\ ~dev[fgCall.dev].busy

(***************************************************************************)
(* The round trip of a shutter command                                     *)
(***************************************************************************)

\* the record Shutter1 / O / 1 closed by the end of record
SetOpenFrame == <<"S","h","u","t","t","e","r","1">> \o <<sepOut>> \o <<"O">> \o <<sepOut>> \o <<"1">> \o <<sepEnd>>

\* the acknowledgement Shutter1 / O / 0
SetOpenAck == <<"S","h","u","t","t","e","r","1">> \o <<sepIn>> \o <<"O">> \o <<sepIn>> \o <<"0">>

\* the step in which SetOpen(true) of Shutter1 ends
SetOpenTrueEnds ==
  /\ pcFg = "send" /\ pcFg' = "idle"
  /\ fgCall.op = "SetOpen" /\ fgCall.open
  /\ deviceDescriptionList[fgCall.dev].name = Shutter1

\* C19: SetOpen(true) of the shutter whose set-open method has the command O
\* writes exactly the record Shutter1:O:1 with the end of record, once, and
\* sets the shutter busy; when the poll loop afterwards reads the
\* acknowledgement Shutter1|O|0 the shutter is not busy and its cached open
\* state is true
C19_ShutterRoundTrip ==
  [][/\ SetOpenTrueEnds
          => /\ tx' \in {tx, Append(tx, SetOpenFrame)}
             /\ dev'[fgCall.dev].busy
             /\ dev'[fgCall.dev].open_
     /\ (Received /\ Line = SetOpenAck /\ dev[DeviceOf(Shutter1)].open_)
          => /\ ~dev'[DeviceOf(Shutter1)].busy
             /\ dev'[DeviceOf(Shutter1)].open_]_vars

\* C19: the acknowledgement was read while the shutter was busy with
\* SetOpen(true), whose record the controller had taken: the shutter is not
\* busy and open
C19_Witness ==
  /\ lastEvent.kind = "frame"
  /\ lastEvent.got.ans = SetOpenAck
  /\ listOfBusyDevices = <<DeviceOf(Shutter1)>>
  /\ dev[DeviceOf(Shutter1)].open_
  /\ ~dev[DeviceOf(Shutter1)].busy
  /\ tx = <<>>
(***************************************************************************)
(* Properties of the hub's life and of the poll cycle                      *)
(***************************************************************************)

\* the foreground step is a call of Initialize: it returns at once or goes on
\* to discovery
InitializeCalled ==
  /\ pcFg = "idle"
  /\ \/ fgCall'.op = "Initialize" /\ fgCall' # fgCall
     \/ pcFg' = "list-start"

\* C21: a call of Initialize on a hub that is initialized returns DEVICE_OK
\* and changes nothing: no frame is sent or read, the registry and the
\* device objects are as before, no poll task is activated, and the call is
\* over in that step
C21_IdempotentInitialize ==
  [][(initialized_ /\ InitializeCalled)
       => /\ fgCall'.ret = DEVICE_OK
          /\ pcFg' = "idle"
          /\ thr_' = thr_
          /\ UNCHANGED <<deviceDescriptionList, dev, error_, errorDescription,
                         now, tx, executeLock_, inflight, pcPoll,
                         listOfBusyDevices, lastPortCheck, lastEvent,
                         initialized_, stopbusythread_>>]_vars

\* C21: Initialize was called again after a command had made the shutter
\* busy: the shutter is busy still and the hub has the one poll task
C21_Witness ==
  /\ fgCall.op = "Initialize"
  /\ fgCall.ret = DEVICE_OK
  /\ initialized_
  /\ thr_ = 1
  /\ pcPoll \in {"loop", "receive"}
  /\ \E i \in DOMAIN dev : dev[i].busy /\ deviceDescriptionList[i].name = Shutter1

\* Shutdown has set the stop flag and waits for the poll task
ShutdownWaits == pcFg = "wait" /\ stopbusythread_

\* C24: once Shutdown has set the stop flag the poll loop starts no further
\* cycle: a cycle in progress ends at the loop's condition, also when it
\* discarded a rejected frame, and from there the loop returns; the poll
\* loop does return and Shutdown, which waits for it, completes
C24_PollLoopTerminates ==
  /\ [][(stopbusythread_ /\ pcPoll = "loop") => pcPoll' \in {"loop", "returned"}]_pcPoll
  /\ [][PollStep => pcPoll' = "loop"]_pcPoll
  /\ ShutdownWaits ~> (pcPoll = "returned" /\ pcFg = "idle" /\ ~initialized_)

\* C24: the last cycle of the poll loop discarded a rejected frame, the loop
\* has returned and Shutdown is over
C24_Witness ==
  /\ fgCall.op = "Shutdown"
  /\ pcFg = "idle"
  /\ ~initialized_
  /\ stopbusythread_
  /\ pcPoll = "returned"
  /\ lastEvent.kind = "reject"
  /\ deviceDescriptionList = <<>>

\* the step is a poll cycle up to its read, or the whole of a cycle that
\* does not read
CycleStep == pcPoll = "loop" /\ now' = now + SleepTime /\ lastEvent' = NoEvent

\* the cycle of the step performs a transport read
ReadStarted == CycleStep /\ pcPoll' = "receive" /\ "poll" \in inflight'

\* an instrument is busy at the start of the cycle
BusyAtStart == \E i \in DOMAIN dev : Busy(Hub, i)

\* C22: in every poll cycle a transport read is performed only if an
\* instrument is busy at the start of the cycle or more than the keep-alive
\* interval, 300,000 ms (here in microseconds), has elapsed since the last
\* check; a cycle in which neither holds reads nothing and changes no busy
\* flag, no error and no cached value
C22_ReadGating ==
  [][CycleStep =>
       /\ ReadStarted => (BusyAtStart \/ now' - lastPortCheck > 300000 * 1000)
       /\ ~ReadStarted =>
            UNCHANGED <<deviceDescriptionList, dev, error_, errorDescription>>]_vars

\* C22: the first cycle of the poll loop, 500 ms after its start, is inside
\* its read although no instrument is busy
C22_Witness ==
  /\ pcPoll = "receive"
  /\ "poll" \in inflight
  /\ listOfBusyDevices = <<>>
  /\ \A i \in DOMAIN dev : ~dev[i].busy
  /\ now = SleepTime
  /\ lastPortCheck = now

\* the instruments whose busy flag the step clears
Cleared == {i \in DOMAIN dev : dev[i].busy /\ ~dev'[i].busy}

\* position k of the cycle's list holds the first listed instrument whose
\* elapsed time exceeds its timeout
FirstExceeded(k) ==
  /\ Elapsed(listOfBusyDevices[k]) > dev[listOfBusyDevices[k]].timeout
  /\ \A j \in 1..(k - 1) :
       ~(Elapsed(listOfBusyDevices[j]) > dev[listOfBusyDevices[j]].timeout)

\* C23: in a poll cycle whose read failed at most one instrument is set not
\* busy, with LostCommunication recorded under its name; it is the first of
\* the cycle's busy instruments, in registry order, whose elapsed time since
\* its last command exceeds its timeout; every other busy instrument keeps
\* its flag, also one that has exceeded its timeout too, and when none has
\* exceeded it nothing is recorded
C23_OneTimeoutPerCycle ==
  [][NothingReceived =>
       /\ Cardinality(Cleared) <= 1
       /\ \A k \in DOMAIN listOfBusyDevices :
            FirstExceeded(k) =>
              /\ Cleared = {listOfBusyDevices[k]}
              /\ error_' = adp_lost_communication
              /\ errorDescription'.addon = deviceDescriptionList[listOfBusyDevices[k]].name
       /\ (~\E k \in DOMAIN listOfBusyDevices : FirstExceeded(k)) =>
            /\ Cleared = {}
            /\ UNCHANGED <<error_, errorDescription>>]_vars

\* C23: the shutter and the state device had both exceeded their timeouts
\* when a read failed: the shutter was set not busy and the state device,
\* second in the registry, is busy still
C23_Witness ==
  /\ lastEvent.kind = "timeout"
  /\ lastEvent.dev = 1
  /\ listOfBusyDevices = <<1, 2>>
  /\ ~dev[1].busy
  /\ dev[2].busy
  /\ Elapsed(2) > dev[2].timeout
  /\ error_ = adp_lost_communication
  /\ errorDescription.addon = Shutter1

\* the step is a write of 0 to the property "Error"
WroteZero == pcFg = "idle" /\ fgCall'.op = "OnError" /\ fgCall'.cmd = to_string(0)

\* the step is the end of a cycle that read an acknowledgement, or a frame
\* whose values ReportToDevice accepted
SuccessfulFrame ==
  /\ Received
  /\ lastEvent'.kind = "frame"
  /\ lastEvent'.err \in {ctr_ok, ctr_busy}
  /\ lastEvent'.forwarded => lastEvent'.ret = DEVICE_OK

\* C25: the last error code goes from non-zero to 0, and the description
\* from an error text to "none", only in a step that writes 0 to the
\* property "Error"; a later acknowledgement or accepted frame leaves both
\* as the error left them
C25_LastErrorPersists ==
  [][/\ (error_ # 0 /\ error_' = 0) => WroteZero
     /\ (errorDescription # DescriptionNone /\ errorDescription' = DescriptionNone)
          => WroteZero
     /\ SuccessfulFrame => UNCHANGED <<error_, errorDescription>>]_vars

\* C25: an error frame of the controller was recorded, and the cycle that
\* has just ended accepted a reported value: the code and the text of the
\* error are still there
C25_Witness ==
  /\ lastEvent.kind = "frame"
  /\ lastEvent.err = ctr_ok
  /\ lastEvent.forwarded
  /\ lastEvent.ret = DEVICE_OK
  /\ error_ = ctr_device_timeout
  /\ errorDescription.code = ctr_device_timeout
  /\ errorDescription.text = ErrorText(ctr_device_timeout)

\* the frame reports a value for a command that is the home or the stop
\* method of a stage
HomeReported(ans) ==
  /\ PositionReported(ans)
  /\ LET d == deviceDescriptionList[FrameDevice(ans)]
     IN d.methods[FindMethodByCommand(d.methods, FrameCommand(ans), 1)].method
          \in {ushwords.home, ushwords.stop}

\* C26: a value reported for the home or the stop method of a stage becomes
\* the stage's cached position and the report succeeds, whatever the value,
\* within the limits of the position or outside them
C26_HomeAcceptsAnyValue ==
  [][(Received /\ HomeReported(Line))
       => /\ lastEvent'.forwarded
          /\ lastEvent'.ret = DEVICE_OK
          /\ dev'[FrameDevice(Line)].position_um_ = atof(FrameValues(Line)[1])]_vars

\* C26: the stage with the limits 0 and 9 was reported at 12 by its home
\* command: the report was refused as a value that is not allowed, and the
\* cached position is not 12
C26_Witness ==
  /\ lastEvent.kind = "frame" /\ lastEvent.forwarded
  /\ lastEvent.got.ans = InboundFrame(Stage1, cmdH, <<num0, <<"1","2">>>>)
  /\ ConvertMethodToCommand(Hub, Stage1, ushwords.home) = cmdH
  /\ dev[1].upperLimit_um_ = 9
  /\ lastEvent.ret = adp_device_command_value_not_allowed
  /\ dev[1].position_um_ # 12

\* the frame reports a value for the fixed command of the timeout
TimeoutReported(ans) == Reported(ans) /\ FrameCommand(ans) = w_timeout

NoSeparator ==
  \A k \in DOMAIN fgCall.fields :
    \A c \in DOMAIN fgCall.fields[k] : fgCall.fields[k][c] # fgCall.sep

\* the call is over: the line was split, or the join has thrown
CodecOver == pcFg \in {"done", "thrown"}

\* C28 as stated: for every sequence of fields, of none as well, that do
\* not hold the separator, the split of the join is the sequence
C28_RoundTripFromZero ==
  (CodecOver /\ NoSeparator) => (pcFg = "done" /\ fgCall.words = fgCall.fields)

\* C28: for every sequence of one field or more, none of which holds the
\* separator, the split of the join on that separator is the sequence
\* itself, with its empty first, inner and last fields
C28_RoundTrip ==
  (CodecOver /\ Len(fgCall.fields) >= 1 /\ NoSeparator)
    => (pcFg = "done" /\ fgCall.words = fgCall.fields)

\* C28: three fields, the first and the last empty, came back as they were
C28_Witness ==
  /\ pcFg = "done"
  /\ fgCall.sep = sepWithin
  /\ fgCall.fields = << <<>>, <<"b","c">>, <<>> >>
  /\ fgCall.line = << sepWithin, "b", "c", sepWithin >>
  /\ fgCall.words = fgCall.fields

\* C29 as stated: the split of an empty line has no element
C29_EmptyLineNoWords ==
  (pcFg = "done" /\ fgCall.line = <<>>) => Len(fgCall.words) = 0

\* C29: the split of an empty line is a sequence of one element, the empty
\* string
C29_EmptyLineOneWord ==
  (pcFg = "done" /\ fgCall.line = <<>>) => fgCall.words = << <<>> >>

\* C29: the line that joins the one empty field is empty, and was split
C29_Witness ==
  /\ pcFg = "done"
  /\ fgCall.fields = << <<>> >>
  /\ fgCall.line = <<>>
  /\ Len(fgCall.words) = 1

\* the foreground call has returned after a write that succeeded, the
\* controller has acknowledged the command and the poll loop has read the
\* acknowledgement; no other command was sent
Acknowledged ==
  /\ pcFg = "idle"
  /\ fgCall.op = "SetOpen"
  /\ fgCall.ret = DEVICE_OK
  /\ tx = <<>>
  /\ rx = <<>>

\* C30: whatever the order of the steps of the foreground command and of
\* the poll loop, once the acknowledgement of the command was processed and
\* the call has returned, the device is not busy, and no later cycle of the
\* poll loop records a loss of communication for it
C30_NoLostBusyClear ==
  [][/\ Acknowledged' => ~dev'[fgCall'.dev].busy
     /\ Acknowledged => ~(/\ PollStep
                          /\ lastEvent'.kind = "timeout"
                          /\ lastEvent'.dev = fgCall.dev)]_vars

\* C30: the call has returned and its acknowledgement was processed, and the
\* poll loop has since recorded a loss of communication for the shutter
C30_Witness ==
  /\ Acknowledged
  /\ fgCall.dev = DeviceOf(Shutter1)
  /\ lastEvent.kind = "timeout"
  /\ lastEvent.dev = DeviceOf(Shutter1)
  /\ error_ = adp_lost_communication

\* C31: whenever the poll loop has handed a frame to ReportToDevice and it
\* has returned, with success or with an error, the updating flag of the
\* frame's device is false, so that the next foreground call takes the
\* command path
C31_UpdatingTransient ==
  [][(Received /\ lastEvent'.forwarded) => ~dev'[FrameDevice(Line)].updating]_vars

\* C31: the report of position 12 to the stage with the limits 0 and 9 was
\* refused and left the updating flag set; the foreground SetPositionUm(5)
\* that came next was taken for the update: it returned success, nothing was
\* sent, the stage is not busy
C31_Witness ==
  /\ lastEvent.kind = "frame" /\ lastEvent.forwarded
  /\ lastEvent.got.ans = InboundFrame(Stage1, cmdS, <<to_string(ctr_ok), <<"1","2">>>>)
  /\ lastEvent.ret = adp_device_command_value_not_allowed
  /\ pcFg = "idle"
  /\ fgCall.op = "SetPositionUm"
  /\ fgCall.ret = DEVICE_OK
  /\ ConvertMethodToCommand(Hub, Stage1, ushwords.set_position_um) = cmdS
  /\ tx = <<>>
  /\ ~dev[1].busy
  /\ dev[1].lastCommandTime = 0
  /\ dev[1].position_um_ = 5

\* C32: the shutter, whose acknowledgement never arrives, once busy is
\* eventually not busy with a loss of communication recorded for it, also
\* when frames of the state device arrive in every cycle and when the state
\* device has timed out as well
C32_TimeoutEventuallyDetected ==
  dev[DeviceOf(Shutter1)].busy
    ~> (/\ ~dev[DeviceOf(Shutter1)].busy
        /\ lastEvent.kind = "timeout"
        /\ lastEvent.dev = DeviceOf(Shutter1)
        /\ error_ = adp_lost_communication)

\* C32: the shutter is busy and past its timeout, and the cycle that has
\* just ended read a frame of the state device and looked at no timeout
C32_Witness ==
  /\ dev[DeviceOf(Shutter1)].busy
  /\ TimedOut(Hub, DeviceOf(Shutter1), now)
  /\ pcPoll = "loop"
  /\ listOfBusyDevices = << DeviceOf(Shutter1) >>
  /\ lastEvent.kind = "frame"
  /\ lastEvent.dev = DeviceOf(State1)
  /\ error_ = 0

\* C33: after every frame that passes CheckIncomingCommand, three fields
\* and a known device, whatever its third field holds, the poll loop is at
\* the top of its loop again
C33_PollLoopSurvives ==
  [][(Received /\ WellFormed(Line)) => pcPoll' = "loop"]_vars

\* C33: the frame of the stage whose third field is empty passed the check,
\* stoi threw on it, and the poll loop has ended
C33_Witness ==
  /\ lastEvent.got.ret = DEVICE_OK
  /\ lastEvent.got.ans = Stage1 \o <<sepIn>> \o cmdS \o <<sepIn>>
  /\ CheckIncomingCommand(Hub, FrameFields(lastEvent.got.ans)) = DEVICE_OK
  /\ lastEvent.kind = "throw"
  /\ pcPoll = "terminated"

\* the hub was shut down and then initialized again with success: the poll
\* task is the second one or a later one
Restarted == initialized_ /\ thr_ >= 2

\* C34: on a hub that was initialized again after Shutdown the stop flag is
\* false and the poll loop has not returned, so that a busy device is again
\* resolved by an acknowledgement or a timeout
C34_RestartRuns ==
  Restarted => (~stopbusythread_ /\ pcPoll # "returned")

\* C34: on the hub that was initialized again the stop flag is still set,
\* the new poll task has returned from svc, and the shutter that a command
\* has made busy since is busy with nobody to read its acknowledgement
C34_Witness ==
  /\ Restarted
  /\ stopbusythread_
  /\ pcPoll = "returned"
  /\ pcFg = "idle"
  /\ Len(dev) >= 1
  /\ dev[1].busy

\* Shutdown of an initialized hub clears the registry in this step
RegistryCleared == initialized_ /\ ~initialized_'

\* C35: the step of Shutdown that clears the registry of an initialized hub
\* is taken when the poll loop has returned, and no step of the poll loop
\* follows it for as long as the hub is not initialized again
C35_ClearAfterPollReturned ==
  /\ [][RegistryCleared => (pcPoll = "returned" /\ pcPoll' = "returned")]_vars
  /\ []((thr_ # 0 /\ ~initialized_) => pcPoll = "returned")

\* C35: Shutdown of an initialized hub with a device in its registry has
\* returned: the poll task has returned and the registry is empty
C35_Witness ==
  /\ fgCall.op = "Shutdown"
  /\ pcFg = "idle"
  /\ ~initialized_
  /\ thr_ # 0
  /\ stopbusythread_
  /\ pcPoll = "returned"
  /\ deviceDescriptionList = <<>>
  /\ lastEvent.kind # "none"

\* the send of a foreground call fails and the call returns in this step
FailedSend ==
  /\ pcFg = "send"
  /\ pcFg' = "idle"
  /\ fgCall'.ret # DEVICE_OK

\* C36: when the send of a foreground call fails, the call returns the
\* error of the port, and the busy flag, the cached open state and the
\* cached position of its device are what they were before the call
C36_FailedSendChangesNothing ==
  [][FailedSend =>
       /\ fgCall'.ret = DEVICE_SERIAL_COMMAND_FAILED
       /\ dev'[fgCall.dev].busy = dev[fgCall.dev].busy
       /\ dev'[fgCall.dev].open_ = dev[fgCall.dev].open_
       /\ dev'[fgCall.dev].position_um_ = dev[fgCall.dev].position_um_]_vars

\* C36: SetOpen(true) on the idle, closed shutter has returned the error of
\* the port, nothing was written, and the shutter is busy and cached as open
C36_Witness ==
  /\ deviceDescriptionList[1].name = Shutter1
  /\ pcFg = "idle"
  /\ fgCall.ret = DEVICE_SERIAL_COMMAND_FAILED
  /\ tx = <<>>
  /\ rx = <<>>
  /\ now = 0
  /\ lastEvent.kind = "none"
  /\ dev[1].busy
  /\ dev[1].open_

\* the one command of the behaviour was SetOpen on the shutter and the poll
\* loop has just answered it with a firmware error frame or with a timeout
SetOpenFailed ==
  /\ fgCall.op = "SetOpen"
  /\ fgCall.dev = DeviceOf(Shutter1)
  /\ pcFg = "idle"
  /\ \/ lastEvent.kind = "timeout" /\ lastEvent.dev = DeviceOf(Shutter1)
     \/ /\ lastEvent.kind = "frame"
        /\ lastEvent.got.ans = InboundFrame(Shutter1, cmdO, <<numErr>>)

\* C37: when the one SetOpen of the behaviour was answered by a firmware
\* error frame or by a timeout, the cached open state of the shutter is the
\* one it had before the command, which is the one of the new device
C37_FailedCommandKeepsCache ==
  SetOpenFailed =>
    dev[DeviceOf(Shutter1)].open_ = InitialDevice(DiscoveredList[DeviceOf(Shutter1)]).open_

\* C37: SetOpen(true) on the closed shutter was refused by the controller
\* with an error frame, the poll loop has processed the frame, and the
\* shutter is idle and cached as open
C37_Witness ==
  /\ SetOpenFailed
  /\ lastEvent.kind = "frame"
  /\ fgCall.ret = DEVICE_OK
  /\ ~dev[DeviceOf(Shutter1)].busy
  /\ dev[DeviceOf(Shutter1)].open_
  /\ error_ # 0

\* C38: a step of the poll loop that processes a frame or a timeout of one
\* device leaves the busy flag, the timeout, the last command time and the
\* cached values of every other device (its fields and its properties in
\* the registry) as they were; a rejected frame and a scan that finds no
\* timeout change no device
C38_FrameIsolation ==
  [][PollStep =>
       \A b \in 1..Len(deviceDescriptionList) :
         b # lastEvent'.dev =>
           /\ dev'[b] = dev[b]
           /\ deviceDescriptionList'[b] = deviceDescriptionList[b]]_vars

\* C38: the acknowledgement of the shutter was processed while the state
\* device was busy: the shutter is idle and the state device is still busy
C38_Witness ==
  /\ lastEvent.kind = "frame"
  /\ lastEvent.dev = DeviceOf(Shutter1)
  /\ lastEvent.err = ctr_ok
  /\ pcPoll = "loop"
  /\ ~dev[DeviceOf(Shutter1)].busy
  /\ dev[DeviceOf(State1)].busy
  /\ DeviceOf(State1) \in { listOfBusyDevices[j] : j \in 1..Len(listOfBusyDevices) }
  /\ DeviceOf(Shutter1) \in { listOfBusyDevices[j] : j \in 1..Len(listOfBusyDevices) }

\* the frame reaches the method scan of ReportToDevice for a shutter or a
\* stage and matches there
MethodReported(ans) ==
  /\ Reported(ans)
  /\ FrameCommand(ans) # w_timeout
  /\ GetType(deviceDescriptionList, FrameDevice(ans)) \in {"ShutterDevice", "StageDevice"}
  /\ MethodsFor(FrameDevice(ans), FrameCommand(ans)) # {}

\* the name of the first method, in list order, with the frame's command
FrameMethod(ans) ==
  LET ms == MethodsFor(FrameDevice(ans), FrameCommand(ans))
  IN deviceDescriptionList[FrameDevice(ans)].methods[
       CHOOSE mi \in ms : \A mj \in ms : mi <= mj].method

\* the method names that update the state of a device of the type
UpdatingMethods(type) ==
  IF type = "ShutterDevice" THEN {w_set_open, w_get_open}
  ELSE {ushwords.set_position_um, ushwords.get_position_um, ushwords.home,
        ushwords.stop}

C40_ErrorCodeAndDescriptionAgree ==
  (error_ = 0) <=> (errorDescription = DescriptionNone)

\* C40: a code that is not 0 was written to the property Error of the hub
\* that had no error: the code is kept and the description still says none
C40_Witness ==
  /\ fgCall.op = "OnError"
  /\ fgCall.cmd = to_string(adp_lost_communication)
  /\ error_ = adp_lost_communication
  /\ errorDescription = DescriptionNone

=============================================================================
